---- MODULE Spec2Model ----
(***************************************************************************)
(* A model of the raalisence license server: the licenses table and the    *)
(* HTTP handlers of internal/handlers/lisence.go that read and write it.   *)
(*                                                                         *)
(* Time is a count of clock ticks.  An instant is an integer; 0 is Go's    *)
(* zero time.Time, instants 1..MaxTime are the times requests can name and *)
(* the server clock can show (all of them times whose UTC year RFC3339     *)
(* text can carry).                                                        *)
(***************************************************************************)
EXTENDS Integers, Sequences, FiniteSets, TLC

\* ------------------------------------------------------------ record fields
\* The field names of the records of the model.  Every record below lists
\* its fields in this order.
RecordFields ==
    DOMAIN [AdminAPIKey |-> {}, AdminAPIKeyHashes |-> {}, Driver |-> {},
            Licenses |-> {}, PrivateKeyPEM |-> {}, PublicKeyPEM |-> {},
            accepted |-> {}, admin |-> {}, ah |-> {}, alert |-> {},
            alerted |-> {}, alertsAt |-> {}, at |-> {},
            authorization |-> {}, body |-> {}, breaks |-> {},
            buckets |-> {}, burst |-> {}, bytes |-> {}, category |-> {},
            claims |-> {}, cleared |-> {}, configs |-> {}, count |-> {},
            created |-> {}, created_at |-> {}, customer |-> {},
            dbErr |-> {}, decoded |-> {}, deflt |-> {}, den |-> {},
            digest |-> {}, elapsed |-> {}, env |-> {}, err |-> {},
            evicted |-> {}, examined |-> {}, expires_at |-> {},
            fails |-> {}, fast |-> {}, features |-> {}, first |-> {},
            got |-> {}, headers |-> {}, high |-> {}, i |-> {}, id |-> {},
            idle |-> {}, ids |-> {}, illegal |-> {}, instants |-> {},
            isNil |-> {}, issued_at |-> {}, json |-> {}, key |-> {},
            keys |-> {}, kind |-> {}, lastFailure |-> {},
            lastRefill |-> {}, lastSweep |-> {}, last_seen_at |-> {},
            latest |-> {}, layout |-> {}, left |-> {}, length |-> {},
            license_key |-> {}, limiter |-> {}, machine_id |-> {},
            machines |-> {}, malformed |-> {}, match |-> {},
            members |-> {}, method |-> {}, more |-> {}, nonce |-> {},
            num |-> {}, ok |-> {}, op |-> {}, origins |-> {}, over |-> {},
            path |-> {}, payload |-> {}, pc |-> {}, permits |-> {},
            presented |-> {}, produced |-> {}, pub |-> {},
            public_key_pem |-> {}, reason |-> {}, remaining |-> {},
            remote |-> {}, reqKeys |-> {}, request |-> {}, rest |-> {},
            result |-> {}, retryAfter |-> {}, revoked |-> {}, right |-> {},
            rows |-> {}, rps |-> {}, rsp |-> {}, seats |-> {}, seen |-> {},
            seq |-> {}, signErr |-> {}, signature |-> {}, signer |-> {},
            slack |-> {}, standing |-> {}, state |-> {}, status |-> {},
            table |-> {}, text |-> {}, tokens |-> {}, ttl |-> {},
            turn |-> {}, updated_at |-> {}, utc |-> {}, val |-> {},
            valid |-> {}, verified |-> {}, wait |-> {}, want |-> {},
            xff |-> {}]

\* ------------------------------------------------------------------ bounds
\* The last instant of the clock and of the timestamps a request can carry.
MaxTime == 2

\* The last instant the clock of the admin guard reaches, in minutes.
MaxAdminTime == 12
\* The most failed admin authorizations in one run of an origin.
MaxFailures == 6

\* The resolution of the limiters' clock and of their token counts: ticks
\* in a second, and units of a token count in one token.
TicksPerSecond == 10

\* The last instant of the limiters' clock.
MaxTicks == 8

\* The callers whose requests are in flight together.
MaxCallers == 3

\* The tokens the three limiters hand out before no more requests come.
MaxSpent == 5

\* The limiter clock of SpecEviction passes at most this many TTLs, and
\* this many ticks besides.
MaxSweeps == 2
MaxLinger == 2

\* The bits of a byte and the longest key of SpecCompare.
ByteBits == 2
MaxKeyLen == 3

\* ------------------------------------------------------- program constants
\* maxJSONBody: upper bound of a JSON request body, in bytes.
maxJSONBody == 65536

\* net/http status codes the handlers use.
StatusOK == 200
StatusBadRequest == 400
StatusNotFound == 404
StatusMethodNotAllowed == 405
StatusRequestEntityTooLarge == 413
StatusInternalServerError == 500

StatusUnauthorized == 401
StatusTooManyRequests == 429

\* The observation window of admin failures, in minutes, and the number of
\* failures that raises the alert.
adminFailureWindow == 10
adminFailureThreshold == 5

\* time.Time{}: the zero instant, what IsZero() reports.
ZeroTime == 0
\* SQL NULL in the nullable last_seen_at column.
NULL == -1

\* ------------------------------------------------------------ input domains
\* Request strings; "" is the absent (zero value) field.
Customers == {"Acme"}
Machines == {"MID1", "MID2"}
Instants == 1..MaxTime

\* A Go map[string]any: nil, or a set of key/value members.
NilMap == [isNil |-> TRUE, members |-> {}]
MakeMap(members) == [isNil |-> FALSE, members |-> members]
FeatureMaps ==
    {NilMap, MakeMap({<<"seats", "5">>, <<"tier", "pro">>}),
     MakeMap({<<"tier", "free">>})}

VARIABLES
    licenses,   \* the rows of table licenses
    now,        \* the server clock (time.Now, CURRENT_TIMESTAMP)
    cfg,        \* config.Config: DB.Driver, Signing.*, Server.AdminAPIKey*
    last,       \* the request handled last and the response written for it
    issued,     \* every LicenseFile a response has carried so far
    adminFailures,  \* failureTracker.state: origin -> failureState
    adminLog,   \* the ALERT lines the last request logged
    runs,       \* per origin, the failed admin authorizations of its current run
    limiters,   \* the limiters of WithRateLimit: category -> limiter
    ticks,      \* the clock the limiters read (time.Now), in ticks
    verdict,    \* what the last call of allow returned, and for which key
    streak,     \* per bucket, the calls permitted since time last passed
    denials,    \* per bucket, the wait its last call reported if it was denied
    inflight,   \* the requests being served concurrently
    trial       \* the last use of SignJSON and VerifyJSON

vars ==
    <<licenses, now, cfg, last, issued, adminFailures, adminLog, runs,
      limiters, ticks, verdict, streak, denials, inflight, trial>>

\* The state of the rate limiter.
limitVars == <<limiters, ticks, verdict, streak, denials>>

\* The state outside the handlers and the admin guard.
sideVars == <<limitVars, inflight, trial>>

\* The state of the admin guard.
guardVars == <<adminFailures, adminLog, runs>>

\* --------------------------------------------------------------- conversions
\* t.UTC().Format(time.RFC3339Nano): the text of an instant.
FormatRFC3339Nano(t) == [layout |-> "RFC3339Nano", utc |-> t]

\* A native time.Time bound as a query argument (timestamptz column).
NativeTime(t) == [layout |-> "time.Time", utc |-> t]

\* time.Parse(time.RFC3339Nano, s), then time.Parse(time.RFC3339, s): both
\* layouts read RFC3339 text with or without a fractional second.
ParseRFC3339(s) ==
    IF s.layout \in {"RFC3339Nano", "RFC3339"}
    THEN [err |-> FALSE, utc |-> s.utc]
    ELSE [err |-> TRUE, utc |-> ZeroTime]

\* json.Marshal(req.Features): a nil map is the text null.
MarshalFeatures(f) ==
    IF f.isNil THEN [json |-> "null", members |-> {}]
    ELSE [json |-> "object", members |-> f.members]

\* json.Unmarshal(features, &feats): null leaves the map nil.
UnmarshalFeatures(s) ==
    IF s.json = "null" THEN NilMap ELSE MakeMap(s.members)

\* ---------------------------------------------------------------- responses
\* http.Error(w, msg, code)
HttpError(msg, code) == [body |-> [kind |-> "text", text |-> msg], status |-> code]

\* internalError: the detail is logged, the caller gets a generic 500.
\* mutant (C30): the error goes to the caller.
internalErrorLeaks(op, err) == HttpError(err, StatusInternalServerError)

internalError(op, err) ==
    HttpError("internal server error", StatusInternalServerError)

\* writeJSON(w, code, v)
writeJSON(code, v) == [body |-> v, status |-> code]

\* ValidateResponse; Reason "" is omitted from the JSON (omitempty).
ValidateResponse(valid, revoked, expires, reason) ==
    [expires_at |-> expires, kind |-> "validate", reason |-> reason,
     revoked |-> revoked, valid |-> valid]

OkBody == [kind |-> "ok", ok |-> TRUE]

\* ----------------------------------------------------------------- requests
\* An HTTP request: its method and its body.  Of the body the decoder sees
\* at most the first maxJSONBody bytes: `first` says what it finds there, a
\* complete JSON value ("value"), a syntax error ("syntax") or neither, the
\* value running past the limit ("cut"); `more` is what dec.More() reports
\* after the value; `length` is the length in bytes; `decoded` is the decoded struct.
Methods == {"POST", "GET"}

Body(first, more, len, v) == [decoded |-> v, first |-> first, length |-> len, more |-> more]

\* decodeJSON: the body read through http.MaxBytesReader(maxJSONBody).
decodeJSON(b) ==
    IF b.first = "syntax"
    THEN [ok |-> FALSE, rsp |-> HttpError("bad json", StatusBadRequest)]
    ELSE IF b.first = "cut"
    THEN [ok |-> FALSE,
          rsp |-> HttpError("request body too large", StatusRequestEntityTooLarge)]
    ELSE IF b.more
    THEN [ok |-> FALSE, rsp |-> HttpError("bad json", StatusBadRequest)]
    ELSE [ok |-> TRUE, rsp |-> HttpError("", StatusOK)]

\* The bodies decodeJSON refuses; zero is the struct left undecoded.
BadBodies(zero) ==
    {Body("syntax", FALSE, 2, zero), Body("value", TRUE, 4, zero),
     Body("cut", FALSE, maxJSONBody + 1, zero)}

\* A body decodeJSON accepts, holding v.
GoodBody(v) == Body("value", FALSE, 2, v)

\* Config.PrivateKey(): fails on a missing or undecodable PEM.
PrivateKey(c) ==
    IF c.PrivateKeyPEM = "" THEN [err |-> TRUE, key |-> ""]
    ELSE [err |-> FALSE, key |-> c.PrivateKeyPEM]

\* crypto.SignJSON(priv, payload): a signature binds the key and the payload.
SignJSON(priv, payload) == [payload |-> payload, signer |-> priv]

\* ------------------------------------------------------------ the repository
\* where license_key=$1
RowsByKey(k) == {r \in licenses : r.license_key = k}

\* The value bound for expires_at: RFC3339Nano text on sqlite3, a time.Time
\* otherwise.
ExpiresValue(c, t) ==
    IF c.Driver = "sqlite3" THEN FormatRFC3339Nano(t) ELSE NativeTime(t)

\* Variant of InsertViolates: license_key is not declared unique.
InsertViolatesIdOnly(id, licenseKey) ==
    \E r \in licenses : r.id = id

\* The insert of IssueLicense; id is the primary key, license_key is unique.
InsertViolates(id, licenseKey) ==
    \/ \E r \in licenses : r.id = id
    \/ \E r \in licenses : r.license_key = licenseKey

\* Variant of NewRow: expires_at bound as a time.Time on every driver.
NewRowNativeExpires(id, licenseKey, req) ==
    [created_at |-> now, customer |-> req.customer,
     expires_at |-> NativeTime(req.expires_at),
     features |-> MarshalFeatures(req.features), id |-> id,
     last_seen_at |-> NULL, license_key |-> licenseKey,
     machine_id |-> req.machine_id, revoked |-> FALSE, updated_at |-> now]

NewRow(id, licenseKey, req) ==
    [created_at |-> now, customer |-> req.customer,
     expires_at |-> ExpiresValue(cfg, req.expires_at),
     features |-> MarshalFeatures(req.features), id |-> id,
     last_seen_at |-> NULL, license_key |-> licenseKey,
     machine_id |-> req.machine_id, revoked |-> FALSE, updated_at |-> now]

\* The request handled, when, and the response written for it.
Handled(op, r, env, rsp) ==
    [at |-> now, body |-> rsp.body, env |-> env, op |-> op, request |-> r,
     status |-> rsp.status]

\* What the environment does to a request: the repository call fails
\* (dbErr), crypto.SignJSON fails (signErr).
Env(dbErr, signErr) == [dbErr |-> dbErr, signErr |-> signErr]
NoFault == Env(FALSE, FALSE)

\* ------------------------------------------------------------------- Issue
IssueRequest(customer, machine, expires, features) ==
    [customer |-> customer, expires_at |-> expires, features |-> features,
     machine_id |-> machine]

\* The claims that are signed.
IssuePayload(req, licenseKey) ==
    [customer |-> req.customer,
     expires_at |-> FormatRFC3339Nano(req.expires_at),
     features |-> req.features, issued_at |-> FormatRFC3339Nano(now),
     license_key |-> licenseKey, machine_id |-> req.machine_id]

LicenseFile(req, licenseKey, sig) ==
    [customer |-> req.customer, expires_at |-> req.expires_at,
     features |-> req.features, issued_at |-> now, kind |-> "license",
     license_key |-> licenseKey, machine_id |-> req.machine_id,
     public_key_pem |-> cfg.PublicKeyPEM, signature |-> sig]

\* Variant of IssueInputBad: the zero expires_at passes.
IssueInputBadNoExpires(req) ==
    req.customer = "" \/ req.machine_id = ""

\* The input check of IssueLicense.
IssueInputBad(req) ==
    req.customer = "" \/ req.machine_id = "" \/ req.expires_at = ZeroTime

\* Whether db.ExecContext(insert ...) returns an error: the repository is
\* at fault, or the row violates a key of the table.
InsertErr(env, id, licenseKey) ==
    env.dbErr \/ InsertViolates(id, licenseKey)

\* Whether the request reaches the insert statement.
IssueReachesInsert(r) ==
    r.method = "POST" /\ decodeJSON(r.body).ok /\ ~IssueInputBad(r.body.decoded)

\* After the insert went through: load the key, sign, answer.
IssueSign(req, env, licenseKey) ==
    IF PrivateKey(cfg).err
    THEN internalError("issue.private_key", "key")
    ELSE IF env.signErr
    THEN internalError("issue.sign", "sign")
    ELSE writeJSON(StatusOK,
            LicenseFile(req, licenseKey,
                        SignJSON(PrivateKey(cfg).key, IssuePayload(req, licenseKey))))

\* Variant of IssueAfterInsert: the error of the insert is dropped.
IssueAfterInsertUnchecked(req, env, licenseKey, insertErr) ==
    IssueSign(req, env, licenseKey)

\* After the insert: stop on its error, else sign.
IssueAfterInsert(req, env, licenseKey, insertErr) ==
    IF insertErr
    THEN internalError("issue.insert", "insert")
    ELSE IssueSign(req, env, licenseKey)

IssueResponse(r, env, id, licenseKey) ==
    IF r.method # "POST"
    THEN HttpError("method not allowed", StatusMethodNotAllowed)
    ELSE IF ~decodeJSON(r.body).ok
    THEN decodeJSON(r.body).rsp
    ELSE IF IssueInputBad(r.body.decoded)
    THEN HttpError("customer, machine_id, expires_at required", StatusBadRequest)
    ELSE IssueAfterInsert(r.body.decoded, env, licenseKey,
                          InsertErr(env, id, licenseKey))

\* mutant (C38): the row is kept only when the artifact is returned.
IssueLicenseAtomic(r, env, id, licenseKey) ==
    LET rsp == IssueResponse(r, env, id, licenseKey)
    IN  /\ licenses' = IF rsp.status = StatusOK
                       THEN licenses \cup {NewRow(id, licenseKey, r.body.decoded)}
                       ELSE licenses
        /\ issued' = IF rsp.status = StatusOK THEN issued \cup {rsp.body} ELSE issued
        /\ last' = Handled("issue", r, env, rsp)
        /\ UNCHANGED <<now, cfg>>

IssueLicense(r, env, id, licenseKey) ==
    LET rsp == IssueResponse(r, env, id, licenseKey)
        inserted == IssueReachesInsert(r) /\ ~InsertErr(env, id, licenseKey)
    IN  /\ licenses' = IF inserted
                       THEN licenses \cup {NewRow(id, licenseKey, r.body.decoded)}
                       ELSE licenses
        /\ issued' = IF rsp.status = StatusOK THEN issued \cup {rsp.body} ELSE issued
        /\ last' = Handled("issue", r, env, rsp)
        /\ UNCHANGED <<now, cfg>>

\* ------------------------------------------------------------------ Revoke
KeyRequest(licenseKey, machine) == [license_key |-> licenseKey, machine_id |-> machine]

\* update licenses set revoked=true, updated_at=CURRENT_TIMESTAMP where license_key=$1
RevokeRow(row) == [row EXCEPT !.revoked = TRUE, !.updated_at = now]

\* Whether the request reaches the statement of a handler keyed by license_key.
KeyedReachesExec(r) ==
    r.method = "POST" /\ decodeJSON(r.body).ok /\ r.body.decoded.license_key # ""

\* Variant of KeyedResponse: RowsAffected is not looked at.
KeyedResponseNoCount(op, r, env, n) ==
    IF r.method # "POST"
    THEN HttpError("method not allowed", StatusMethodNotAllowed)
    ELSE IF ~decodeJSON(r.body).ok
    THEN decodeJSON(r.body).rsp
    ELSE IF r.body.decoded.license_key = ""
    THEN HttpError("license_key required", StatusBadRequest)
    ELSE IF env.dbErr
    THEN internalError(op, "update")
    ELSE writeJSON(StatusOK, OkBody)

\* The answer of Revoke and Heartbeat, n being RowsAffected.
KeyedResponse(op, r, env, n) ==
    IF r.method # "POST"
    THEN HttpError("method not allowed", StatusMethodNotAllowed)
    ELSE IF ~decodeJSON(r.body).ok
    THEN decodeJSON(r.body).rsp
    ELSE IF r.body.decoded.license_key = ""
    THEN HttpError("license_key required", StatusBadRequest)
    ELSE IF env.dbErr
    THEN internalError(op, "update")
    ELSE IF n = 0
    THEN HttpError("not found", StatusNotFound)
    ELSE writeJSON(StatusOK, OkBody)

\* The rows the update statement of RevokeLicense matches.
RevokeMatch(k) == RowsByKey(k)

\* The table after a statement that sets the rows in `matched` to `set`.
TableAfter(matched, set) == (licenses \ matched) \cup set

RevokeLicense(r, env) ==
    LET k == r.body.decoded.license_key
        exec == KeyedReachesExec(r) /\ ~env.dbErr
        matched == RevokeMatch(k)
    IN  /\ licenses' = IF exec
                       THEN TableAfter(matched, {RevokeRow(row) : row \in matched})
                       ELSE licenses
        /\ last' = Handled("revoke", r, env,
                           KeyedResponse("revoke.update", r, env, Cardinality(matched)))
        /\ UNCHANGED <<now, cfg, issued>>

\* --------------------------------------------------------------- Heartbeat
\* update licenses set last_seen_at=CURRENT_TIMESTAMP, updated_at=CURRENT_TIMESTAMP
HeartbeatRow(row) == [row EXCEPT !.last_seen_at = now, !.updated_at = now]

\* Variant of HeartbeatMatch: where license_key=$1 and revoked=false.
HeartbeatMatchActive(k) == {r \in RowsByKey(k) : ~r.revoked}

\* The rows the update statement of Heartbeat matches.
HeartbeatMatch(k) == RowsByKey(k)

Heartbeat(r, env) ==
    LET k == r.body.decoded.license_key
        exec == KeyedReachesExec(r) /\ ~env.dbErr
        matched == HeartbeatMatch(k)
    IN  /\ licenses' = IF exec
                       THEN TableAfter(matched, {HeartbeatRow(row) : row \in matched})
                       ELSE licenses
        /\ last' = Handled("heartbeat", r, env,
                           KeyedResponse("heartbeat.update", r, env, Cardinality(matched)))
        /\ UNCHANGED <<now, cfg, issued>>

\* ---------------------------------------------------------------- Validate
\* Scan of the expires_at column: text parsed as RFC3339 on sqlite3, a
\* timestamptz scanned into a time.Time otherwise.
ScanExpires(c, stored) ==
    IF c.Driver = "sqlite3" THEN ParseRFC3339(stored)
    ELSE IF stored.layout = "time.Time" THEN [err |-> FALSE, utc |-> stored.utc]
    ELSE [err |-> TRUE, utc |-> ZeroTime]

\* Variant of After: !time.Now().Before(expires).
NotBefore(t, u) == t >= u

\* time.Now().After(expires)
After(t, u) == t > u

\* Variant of ValidateDecision: revocation is looked at before the machine.
ValidateDecisionRevokedFirst(req, revoked, expires, machine) ==
    IF revoked
    THEN writeJSON(StatusOK, ValidateResponse(FALSE, TRUE, expires, "revoked"))
    ELSE IF machine # req.machine_id
    THEN writeJSON(StatusOK, ValidateResponse(FALSE, FALSE, ZeroTime, "machine mismatch"))
    ELSE IF After(now, expires)
    THEN writeJSON(StatusOK, ValidateResponse(FALSE, FALSE, expires, "expired"))
    ELSE writeJSON(StatusOK, ValidateResponse(TRUE, FALSE, expires, ""))

\* Variant of ValidateDecision: the mismatch answer carries the row's
\* revoked flag and expires_at.
ValidateDecisionSurfacing(req, revoked, expires, machine) ==
    IF machine # req.machine_id
    THEN writeJSON(StatusOK, ValidateResponse(FALSE, revoked, expires, "machine mismatch"))
    ELSE IF revoked
    THEN writeJSON(StatusOK, ValidateResponse(FALSE, TRUE, expires, "revoked"))
    ELSE IF After(now, expires)
    THEN writeJSON(StatusOK, ValidateResponse(FALSE, FALSE, expires, "expired"))
    ELSE writeJSON(StatusOK, ValidateResponse(TRUE, FALSE, expires, ""))

\* The state machine of ValidateLicense over the scanned row.
ValidateDecision(req, revoked, expires, machine) ==
    IF machine # req.machine_id
    THEN writeJSON(StatusOK, ValidateResponse(FALSE, FALSE, ZeroTime, "machine mismatch"))
    ELSE IF revoked
    THEN writeJSON(StatusOK, ValidateResponse(FALSE, TRUE, expires, "revoked"))
    ELSE IF After(now, expires)
    THEN writeJSON(StatusOK, ValidateResponse(FALSE, FALSE, expires, "expired"))
    ELSE writeJSON(StatusOK, ValidateResponse(TRUE, FALSE, expires, ""))

\* The lookup of ValidateLicense; rows is what the query returns, no row or
\* one.
ValidateLookup(req, env, rows) ==
    IF env.dbErr
    THEN internalError("validate.lookup", "query")
    ELSE IF rows = {}
    THEN writeJSON(StatusOK, ValidateResponse(FALSE, FALSE, ZeroTime, "unknown license"))
    ELSE LET row == CHOOSE x \in rows : TRUE
             exp == ScanExpires(cfg, row.expires_at)
         IN  IF exp.err
             THEN IF cfg.Driver = "sqlite3"
                  THEN HttpError("bad expires_at format", StatusInternalServerError)
                  ELSE internalError("validate.lookup", "scan")
             ELSE ValidateDecision(req, row.revoked, exp.utc, row.machine_id)

ValidateResponseFor(r, env, rows) ==
    IF r.method # "POST"
    THEN HttpError("method not allowed", StatusMethodNotAllowed)
    ELSE IF ~decodeJSON(r.body).ok
    THEN decodeJSON(r.body).rsp
    ELSE IF r.body.decoded.license_key = "" \/ r.body.decoded.machine_id = ""
    THEN HttpError("license_key and machine_id required", StatusBadRequest)
    ELSE ValidateLookup(r.body.decoded, env, rows)

\* What QueryRow can return for a key: no row, or one of the matching rows.
QueryRow(k) ==
    IF RowsByKey(k) = {} THEN {{}} ELSE {{row} : row \in RowsByKey(k)}

\* mutant (C39): a validate refreshes last_seen_at of the record it reads.
ValidateLicenseTouches(r, env) ==
    \E rows \in QueryRow(r.body.decoded.license_key) :
        /\ last' = Handled("validate", r, env, ValidateResponseFor(r, env, rows))
        /\ licenses' = TableAfter(rows, {HeartbeatRow(row) : row \in rows})
        /\ UNCHANGED <<now, cfg, issued>>

ValidateLicense(r, env) ==
    \E rows \in QueryRow(r.body.decoded.license_key) :
        /\ last' = Handled("validate", r, env, ValidateResponseFor(r, env, rows))
        /\ UNCHANGED <<licenses, now, cfg, issued>>

\* ------------------------------------------------------------------ Update
\* UpdateLicenseRequest: ExpiresAt is a *string, Features a map.
NilString == [layout |-> "nil", utc |-> ZeroTime]
UpdateRequest(licenseKey, expires, features) ==
    [expires_at |-> expires, features |-> features, license_key |-> licenseKey]

\* The set clauses the request asks for.
UpdateHasExpires(req) == req.expires_at # NilString
UpdateHasFeatures(req) == ~req.features.isNil

\* Variant of UpdateEmpty: the statement is built whatever it sets.
UpdateEmptyAllowed(req) == FALSE

\* len(updates) == 0: the request asks for no set clause.
UpdateEmpty(req) == ~UpdateHasExpires(req) /\ ~UpdateHasFeatures(req)

\* Variant of MarshalFeatures for an update: the members of the request are
\* laid over the stored ones, key by key.
MergeFeatures(f, stored) ==
    IF f.isNil THEN stored
    ELSE [json |-> "object",
          members |-> f.members \cup
              {m \in stored.members : \A n \in f.members : n[1] # m[1]}]

\* Variant of UpdateFeaturesValue: merged into the stored map.
UpdateFeaturesMerged(req, row) == MergeFeatures(req.features, row.features)

\* The value bound for the features column by an update.
UpdateFeaturesValue(req, row) == MarshalFeatures(req.features)

\* Variant of UpdateRow: expires_at is left as it is.
UpdateRowKeepsExpires(req, row) ==
    [row EXCEPT
        !.features = IF UpdateHasFeatures(req) THEN MarshalFeatures(req.features) ELSE @,
        !.updated_at = now]

\* Variant of UpdateRow: a new expires_at also sets revoked=false.
UpdateRowReinstating(req, row) ==
    [row EXCEPT
        !.expires_at = IF UpdateHasExpires(req)
                       THEN ExpiresValue(cfg, ParseRFC3339(req.expires_at).utc)
                       ELSE @,
        !.features = IF UpdateHasFeatures(req) THEN MarshalFeatures(req.features) ELSE @,
        !.revoked = IF UpdateHasExpires(req) THEN FALSE ELSE @,
        !.updated_at = now]

\* The row after the update statement built for req.
UpdateRow(req, row) ==
    [row EXCEPT
        !.expires_at = IF UpdateHasExpires(req)
                       THEN ExpiresValue(cfg, ParseRFC3339(req.expires_at).utc)
                       ELSE @,
        !.features = IF UpdateHasFeatures(req) THEN UpdateFeaturesValue(req, row) ELSE @,
        !.updated_at = now]

\* The rows the update statement of UpdateLicense matches.
UpdateMatch(k) == RowsByKey(k)

\* Whether the request is refused before the statement is built.
UpdateInputError(r) ==
    IF r.method # "POST"
    THEN HttpError("method not allowed", StatusMethodNotAllowed)
    ELSE IF ~decodeJSON(r.body).ok
    THEN decodeJSON(r.body).rsp
    ELSE IF r.body.decoded.license_key = ""
    THEN HttpError("license_key required", StatusBadRequest)
    ELSE IF UpdateHasExpires(r.body.decoded) /\ ParseRFC3339(r.body.decoded.expires_at).err
    THEN HttpError("expires_at must be RFC3339", StatusBadRequest)
    ELSE IF UpdateEmpty(r.body.decoded)
    THEN HttpError("no updates requested", StatusBadRequest)
    ELSE HttpError("", StatusOK)

UpdateResponse(r, env, n) ==
    IF UpdateInputError(r).status # StatusOK
    THEN UpdateInputError(r)
    ELSE IF env.dbErr
    THEN internalError("license.update", "update")
    ELSE IF n = 0
    THEN HttpError("not found", StatusNotFound)
    ELSE writeJSON(StatusOK, OkBody)

\* mutant (C40): the statement runs before expires_at is parsed.
UpdateLicenseEager(r, env) ==
    LET req == r.body.decoded
        exec == r.method = "POST" /\ decodeJSON(r.body).ok /\ req.license_key # ""
                    /\ ~env.dbErr
        matched == UpdateMatch(req.license_key)
    IN  /\ licenses' = IF exec
                       THEN TableAfter(matched, {UpdateRow(req, row) : row \in matched})
                       ELSE licenses
        /\ last' = Handled("update", r, env, UpdateResponse(r, env, Cardinality(matched)))
        /\ UNCHANGED <<now, cfg, issued>>

UpdateLicense(r, env) ==
    LET req == r.body.decoded
        exec == UpdateInputError(r).status = StatusOK /\ ~env.dbErr
        matched == UpdateMatch(req.license_key)
    IN  /\ licenses' = IF exec
                       THEN TableAfter(matched, {UpdateRow(req, row) : row \in matched})
                       ELSE licenses
        /\ last' = Handled("update", r, env, UpdateResponse(r, env, Cardinality(matched)))
        /\ UNCHANGED <<now, cfg, issued>>

\* -------------------------------------------------------------------- List
\* The text of a CURRENT_TIMESTAMP column as sqlite3 returns it.
SQLDateTime(t) == [layout |-> "SQLDateTime", utc |-> t]

\* LicenseSummary of a scanned row.
LicenseSummary(c, row) ==
    [customer |-> row.customer,
     expires_at |-> IF c.Driver = "sqlite3" THEN row.expires_at
                    ELSE FormatRFC3339Nano(row.expires_at.utc),
     features |-> UnmarshalFeatures(row.features),
     id |-> row.id,
     last_seen_at |-> IF row.last_seen_at = NULL THEN NilString
                      ELSE IF c.Driver = "sqlite3" THEN SQLDateTime(row.last_seen_at)
                      ELSE FormatRFC3339Nano(row.last_seen_at),
     license_key |-> row.license_key, machine_id |-> row.machine_id,
     revoked |-> row.revoked]

\* order by created_at desc: every order of the rows in which created_at
\* does not increase.
\* Variant of OrderByCreatedDesc: order by created_at asc.
OrderByCreatedAsc(rows) ==
    {s \in [1..Cardinality(rows) -> rows] :
        /\ \A i, j \in DOMAIN s : i # j => s[i] # s[j]
        /\ \A i, j \in DOMAIN s : i < j => s[i].created_at <= s[j].created_at}

OrderByCreatedDesc(rows) ==
    {s \in [1..Cardinality(rows) -> rows] :
        /\ \A i, j \in DOMAIN s : i # j => s[i] # s[j]
        /\ \A i, j \in DOMAIN s : i < j => s[i].created_at >= s[j].created_at}

ListResponse(r, env, ordered) ==
    IF r.method # "GET"
    THEN HttpError("method not allowed", StatusMethodNotAllowed)
    ELSE IF env.dbErr
    THEN internalError("licenses.list.query", "query")
    ELSE writeJSON(StatusOK,
            [Licenses |-> [i \in DOMAIN ordered |-> LicenseSummary(cfg, ordered[i])],
             kind |-> "list"])

ListLicenses(r, env) ==
    \E ordered \in OrderByCreatedDesc(licenses) :
        /\ last' = Handled("list", r, env, ListResponse(r, env, ordered))
        /\ UNCHANGED <<licenses, now, cfg, issued>>

\* ------------------------------------------------------------- admin guard
\* Strings the guard slices are sequences of bytes.
BearerPrefix == <<"B", "e", "a", "r", "e", "r", " ">>

\* Admin tokens: the configured plaintext key, the token whose hash is
\* configured, a token that is neither.
GoodToken == <<"s", "3">>
HashedToken == <<"h", "7">>
WrongToken == <<"x", "9">>

\* strings.HasPrefix(s, prefix)
HasPrefix(s, prefix) == Len(s) >= Len(prefix) /\ SubSeq(s, 1, Len(prefix)) = prefix

\* s[n:]
SliceFrom(s, n) == SubSeq(s, n + 1, Len(s))

\* A bcrypt hash of a token; the empty string; a string that is no hash.
BcryptHash(token) == <<"bcrypt", token>>
EmptyHash == <<>>
BadHash == <<"garbage">>

\* bcrypt.CompareHashAndPassword(h, got) == nil
CompareHashAndPassword(h, got) == h = BcryptHash(got)

\* The constant-time comparison of AdminKeyOK: equal length, equal bytes.
ConstantTimeEq(want, got) ==
    Len(got) = Len(want) /\ \A i \in DOMAIN got : want[i] = got[i]

\* Variant of AdminKeyOK: the plaintext key is tried when no hash matches.
AdminKeyOKFallback(c, got) ==
    \/ \E i \in DOMAIN c.AdminAPIKeyHashes :
        /\ c.AdminAPIKeyHashes[i] # EmptyHash
        /\ CompareHashAndPassword(c.AdminAPIKeyHashes[i], got)
    \/ c.AdminAPIKey # <<>> /\ ConstantTimeEq(c.AdminAPIKey, got)

\* Config.AdminKeyOK
AdminKeyOK(c, got) ==
    IF Len(c.AdminAPIKeyHashes) > 0
    THEN \E i \in DOMAIN c.AdminAPIKeyHashes :
            /\ c.AdminAPIKeyHashes[i] # EmptyHash
            /\ CompareHashAndPassword(c.AdminAPIKeyHashes[i], got)
    ELSE c.AdminAPIKey # <<>> /\ ConstantTimeEq(c.AdminAPIKey, got)

\* adminFailureKey: the first hop of X-Forwarded-For (a list of hops, empty
\* when the header is absent), else the host of RemoteAddr.
adminFailureKey(r) == IF r.xff # <<>> THEN r.xff[1] ELSE r.remote

\* &failureState{}
FreshState == [alerted |-> FALSE, count |-> 0, lastFailure |-> ZeroTime]

\* now.Sub(st.last) > adminFailureWindow
WindowElapsed(st, t) == t - st.lastFailure > adminFailureWindow

\* Variant of FailureStateAt: a stale entry starts counting again and keeps
\* its alerted flag.
FailureStateKeepsAlerted(key, t) ==
    IF key \notin DOMAIN adminFailures THEN FreshState
    ELSE IF WindowElapsed(adminFailures[key], t)
    THEN [FreshState EXCEPT !.alerted = adminFailures[key].alerted]
    ELSE adminFailures[key]

\* The state recordFailure counts on: a fresh one when the origin has none
\* or its entry is older than the window.
FailureStateAt(key, t) ==
    IF key \notin DOMAIN adminFailures \/ WindowElapsed(adminFailures[key], t)
    THEN FreshState
    ELSE adminFailures[key]

\* Variant of ShouldAlert: every failure from the threshold on alerts.
ShouldAlertAlways(st) == st.count >= adminFailureThreshold

\* st.count >= adminFailureThreshold && !st.alerted
ShouldAlert(st) == st.count >= adminFailureThreshold /\ ~st.alerted

\* st.count++, st.last = now and the alert of recordFailure on the state
\* st: the count and the alert returned, and the state left.
CountFailure(st) ==
    LET counted == [st EXCEPT !.count = @ + 1, !.lastFailure = now]
    IN  [alert |-> ShouldAlert(counted), count |-> counted.count,
         state |-> [counted EXCEPT !.alerted = @ \/ ShouldAlert(counted)]]

\* failureTracker.recordFailure: the count and the alert it returns, and
\* the state it leaves for the key.
recordFailure(key) == CountFailure(FailureStateAt(key, now))

\* Variant of TrackerReset: the entry is zeroed, not deleted.
TrackerResetZeroes(key) ==
    IF key \in DOMAIN adminFailures
    THEN [adminFailures EXCEPT ![key].count = 0]
    ELSE adminFailures

\* failureTracker.reset: the map without the key.
TrackerReset(key) == [o \in DOMAIN adminFailures \ {key} |-> adminFailures[o]]

\* The map with the state of the key replaced.
TrackerWith(key, st) ==
    [o \in DOMAIN adminFailures \cup {key} |-> IF o = key THEN st ELSE adminFailures[o]]

\* Variant of AdminGuardRejects: the header is long enough and its tail is
\* the key, whatever its first seven bytes are.
AdminGuardRejectsByLength(c, ah) ==
    Len(ah) <= Len(BearerPrefix) \/ ~AdminKeyOK(c, SliceFrom(ah, Len(BearerPrefix)))

\* The two rejections of WithAdminKey: no "Bearer " prefix, or a token that
\* AdminKeyOK refuses.
AdminGuardRejects(c, ah) ==
    ~HasPrefix(ah, BearerPrefix) \/ ~AdminKeyOK(c, SliceFrom(ah, Len(BearerPrefix)))

\* Variant of AdminRejection: the message names what is wrong.
AdminRejectionByCause(c, ah) ==
    IF ~HasPrefix(ah, BearerPrefix)
    THEN HttpError("missing bearer token", StatusUnauthorized)
    ELSE HttpError("unauthorized", StatusUnauthorized)

\* http.Error(w, "unauthorized", http.StatusUnauthorized), at both rejections.
AdminRejection(c, ah) == HttpError("unauthorized", StatusUnauthorized)

\* The run of an origin: how many admin authorizations of it have failed
\* since its last success with no gap longer than the window, when the
\* first and the latest of them failed, and at which of them an alert was
\* logged.
\* `over`: it began over a run that had alerted and gone stale; `cleared`:
\* the last success ended a run that had alerted.
NoRun ==
    [alertsAt |-> {}, cleared |-> FALSE, fails |-> 0, first |-> ZeroTime,
     latest |-> ZeroTime, over |-> FALSE]
RunAfterFailure(run, t, alert) ==
    LET stale == run.fails > 0 /\ t - run.latest > adminFailureWindow
        n == IF run.fails = 0 \/ stale THEN 1 ELSE run.fails + 1
        before == IF n = 1 THEN {} ELSE run.alertsAt
    IN  [alertsAt |-> IF alert THEN before \cup {n} ELSE before,
         cleared |-> FALSE, fails |-> n, first |-> IF n = 1 THEN t ELSE run.first,
         latest |-> t,
         over |-> IF stale THEN run.alertsAt # {} ELSE n > 1 /\ run.over]
RunAfterSuccess(run) == [NoRun EXCEPT !.cleared = run.alertsAt # {}]

\* WithAdminKey(cfg, next) serving r; `next` is the step of next.ServeHTTP.
WithAdminKey(r, next) ==
    LET key == adminFailureKey(r)
        failure == recordFailure(key)
    IN  IF AdminGuardRejects(cfg, r.authorization)
        THEN /\ adminFailures' = TrackerWith(key, failure.state)
             /\ adminLog' = IF failure.alert
                            THEN {[count |-> failure.count, remote |-> key]}
                            ELSE {}
             /\ runs' = [runs EXCEPT ![key] = RunAfterFailure(@, now, failure.alert)]
             /\ last' = Handled("admin", r, NoFault, AdminRejection(cfg, r.authorization))
             /\ UNCHANGED <<licenses, now, cfg, issued>>
        ELSE /\ adminFailures' = TrackerReset(key)
             /\ adminLog' = {}
             /\ runs' = [runs EXCEPT ![key] = RunAfterSuccess(@)]
             /\ next

\* ------------------------------------------------------------ rate limiter
\* A float64 token count is a whole number of units, TicksPerSecond of them
\* in a token; a time is a whole number of ticks, so that a rate of rps
\* tokens a second adds rps units a tick.
OneToken == TicksPerSecond

mathMin(a, b) == IF a < b THEN a ELSE b

\* newLimiter(rps, burst, ttl) at time t; ttl in ticks.
newLimiter(rps, burst, ttl, t) ==
    [buckets |-> [k \in {} |-> 0], burst |-> burst * OneToken, lastSweep |-> t,
     rps |-> rps, ttl |-> ttl]

\* Variant of StaleAt: a bucket is stale from the TTL on.
StaleFrom(l, since, t) == t - since >= l.ttl

\* now.Sub(x) > l.ttl
StaleAt(l, since, t) == t - since > l.ttl

\* The periodic sweep of allow: the limiter after it.
\* mutant (C37): a sweep that is due deletes every bucket.
SweepAll(l, t) ==
    IF StaleAt(l, l.lastSweep, t)
    THEN [l EXCEPT !.buckets = [k \in {} |-> l.buckets[k]], !.lastSweep = t]
    ELSE l

Sweep(l, t) ==
    IF StaleAt(l, l.lastSweep, t)
    THEN [l EXCEPT
            !.buckets = [k \in {x \in DOMAIN l.buckets :
                                    ~StaleAt(l, l.buckets[x].lastRefill, t)}
                            |-> l.buckets[k]],
            !.lastSweep = t]
    ELSE l

\* Variant of Refill: the refilled count is not capped.
RefillUncapped(l, b, t) ==
    [lastRefill |-> t, tokens |-> b.tokens + (t - b.lastRefill) * l.rps]

\* The refill of allow.
Refill(l, b, t) ==
    [lastRefill |-> t,
     tokens |-> mathMin(l.burst, b.tokens + (t - b.lastRefill) * l.rps)]

\* Variant of Consume: a denied call takes what is left.
ConsumeOnDeny(b) ==
    IF b.tokens >= OneToken THEN [b EXCEPT !.tokens = @ - OneToken]
    ELSE [b EXCEPT !.tokens = 0]

\* if b.tokens >= 1.0 { b.tokens -= 1.0 }
Consume(b) ==
    IF b.tokens >= OneToken THEN [b EXCEPT !.tokens = @ - OneToken] ELSE b

\* limiter.allow(key) at time t: the limiter after the call and what the
\* call returns; the wait is missing / rps seconds, kept as a fraction of
\* units over units a tick. `elapsed` and `evicted` are what the call
\* computed on the way: the idle time of the bucket, the keys swept.
\* mutant (C32): the wait is counted at twice the rate.
allowShortWait(l, key, t) ==
    LET swept == Sweep(l, t)
        b == IF key \in DOMAIN swept.buckets THEN swept.buckets[key]
             ELSE [lastRefill |-> t, tokens |-> swept.burst]
        filled == Refill(swept, b, t)
        left == Consume(filled)
        ok == filled.tokens >= OneToken
    IN  [elapsed |-> t - b.lastRefill,
         evicted |-> DOMAIN l.buckets \ DOMAIN swept.buckets,
         limiter |-> [swept EXCEPT
                        !.buckets = [k \in DOMAIN swept.buckets \cup {key} |->
                                        IF k = key THEN left ELSE swept.buckets[k]]],
         ok |-> ok,
         remaining |-> left.tokens \div OneToken,
         retryAfter |-> IF ok THEN [den |-> 1, num |-> 0]
                        ELSE [den |-> 2 * swept.rps, num |-> OneToken - filled.tokens]]

allow(l, key, t) ==
    LET swept == Sweep(l, t)
        b == IF key \in DOMAIN swept.buckets THEN swept.buckets[key]
             ELSE [lastRefill |-> t, tokens |-> swept.burst]
        filled == Refill(swept, b, t)
        left == Consume(filled)
        ok == filled.tokens >= OneToken
    IN  [elapsed |-> t - b.lastRefill,
         evicted |-> DOMAIN l.buckets \ DOMAIN swept.buckets,
         limiter |-> [swept EXCEPT
                        !.buckets = [k \in DOMAIN swept.buckets \cup {key} |->
                                        IF k = key THEN left ELSE swept.buckets[k]]],
         ok |-> ok,
         remaining |-> left.tokens \div OneToken,
         retryAfter |-> IF ok THEN [den |-> 1, num |-> 0]
                        ELSE [den |-> swept.rps, num |-> OneToken - filled.tokens]]

\* No denial: no wait, reported at no time.
NoDenial == [at |-> 0, wait |-> [den |-> 1, num |-> 0]]

\* What a call of allow leaves in `verdict`: what it returned, and the
\* denial that stood for its bucket when it was made.
Verdict(category, key, res) ==
    [category |-> category, elapsed |-> res.elapsed, evicted |-> res.evicted,
     key |-> key, ok |-> res.ok, remaining |-> res.remaining,
     retryAfter |-> res.retryAfter,
     standing |-> IF <<category, key>> \in DOMAIN denials
                  THEN denials[<<category, key>>] ELSE NoDenial]
NoVerdict ==
    [category |-> "none", elapsed |-> 0, evicted |-> {}, key |-> "", ok |-> TRUE,
     remaining |-> 0, retryAfter |-> [den |-> 1, num |-> 0], standing |-> NoDenial]

\* The calls on a bucket since time last passed, after one more: how many
\* were permitted, and how long the bucket had been idle at the first.
StreakAfter(category, key, res) ==
    LET b == <<category, key>>
        was == IF b \in DOMAIN streak THEN streak[b]
               ELSE [idle |-> res.elapsed, permits |-> 0]
    IN  [x \in DOMAIN streak \cup {b} |->
            IF x = b
            THEN [was EXCEPT !.permits = IF res.ok THEN @ + 1 ELSE @]
            ELSE streak[x]]
NoStreak == [x \in {} |-> 0]

\* The denials that stand, after one more call: a denied call leaves the
\* time of the call and the wait it reported, a permitted call takes the
\* denial of its bucket away.
DenialsAfter(category, key, res) ==
    LET b == <<category, key>>
    IN  [x \in (IF res.ok THEN DOMAIN denials \ {b} ELSE DOMAIN denials \cup {b}) |->
            IF x = b THEN [at |-> ticks, wait |-> res.retryAfter] ELSE denials[x]]
NoDenials == [x \in {} |-> 0]

\* A call l.allow(key) on the limiter of a category.
AllowCall(category, key) ==
    LET res == allow(limiters[category], key, ticks)
    IN  /\ limiters' = [limiters EXCEPT ![category] = res.limiter]
        /\ verdict' = Verdict(category, key, res)
        /\ streak' = StreakAfter(category, key, res)
        /\ denials' = DenialsAfter(category, key, res)
        /\ UNCHANGED ticks

\* Time passes at the limiters.
Pass(d) ==
    /\ ticks + d <= MaxTicks
    /\ ticks' = ticks + d
    /\ streak' = NoStreak
    /\ UNCHANGED <<limiters, verdict, denials>>

\* ten minutes, in ticks
TenMinutes == 10 * 60 * TicksPerSecond

\* The limiters WithRateLimit creates.
NewLimiters(t) ==
    [admin |-> newLimiter(1, 3, TenMinutes, t),
     deflt |-> newLimiter(2, 5, TenMinutes, t),
     fast |-> newLimiter(5, 10, TenMinutes, t)]

\* The switch of WithRateLimit on r.URL.Path; a path is named by its route.
CategoryOf(path) ==
    IF path \in {"validate", "heartbeat"} THEN "fast"
    ELSE IF path \in {"issue", "revoke"} THEN "admin"
    ELSE "deflt"

\* bearerToken(h)
bearerToken(h) ==
    IF Len(h) > Len(BearerPrefix) /\ SubSeq(h, 1, Len(BearerPrefix)) = BearerPrefix
    THEN SliceFrom(h, Len(BearerPrefix))
    ELSE <<>>

\* clientIP(r)
clientIP(r) == IF r.xff # <<>> THEN r.xff[1] ELSE r.remote

\* rateKey(cfg, r): "admin:" + tok, "ip:" + ip, or "ip:unknown".
\* mutant (C24): any bearer token names the bucket, accepted or not.
rateKeyUnchecked(c, r) ==
    IF bearerToken(r.authorization) # <<>>
    THEN <<"admin:", bearerToken(r.authorization)>>
    ELSE IF clientIP(r) # "" THEN <<"ip:", clientIP(r)>>
    ELSE <<"ip:", "unknown">>

rateKey(c, r) ==
    IF bearerToken(r.authorization) # <<>> /\ AdminKeyOK(c, bearerToken(r.authorization))
    THEN <<"admin:", bearerToken(r.authorization)>>
    ELSE IF clientIP(r) # "" THEN <<"ip:", clientIP(r)>>
    ELSE <<"ip:", "unknown">>

\* strconv.FormatInt(int64(retry/time.Second), 10): the Retry-After header
\* of a denied request, the whole seconds of the wait.
RetryAfterSeconds(wait) == wait.num \div (wait.den * OneToken)

\* WithRateLimit(cfg, next) serving r; `next` is the step of next.ServeHTTP.
\* mutant (C27): a denied request clears the failures of its origin.
WithRateLimitResets(r, next) ==
    LET category == CategoryOf(r.path)
        key == rateKey(cfg, r)
        res == allow(limiters[category], key, ticks)
    IN  /\ limiters' = [limiters EXCEPT ![category] = res.limiter]
        /\ verdict' = Verdict(category, key, res)
        /\ streak' = StreakAfter(category, key, res)
        /\ denials' = DenialsAfter(category, key, res)
        /\ UNCHANGED ticks
        /\ IF ~res.ok
           THEN /\ last' = Handled("ratelimit", r, NoFault,
                                   HttpError("rate limit exceeded", StatusTooManyRequests))
                /\ adminFailures' = TrackerReset(adminFailureKey(r))
                /\ UNCHANGED <<licenses, now, cfg, issued, adminLog, runs>>
           ELSE next

WithRateLimit(r, next) ==
    LET category == CategoryOf(r.path)
        key == rateKey(cfg, r)
        res == allow(limiters[category], key, ticks)
    IN  /\ limiters' = [limiters EXCEPT ![category] = res.limiter]
        /\ verdict' = Verdict(category, key, res)
        /\ streak' = StreakAfter(category, key, res)
        /\ denials' = DenialsAfter(category, key, res)
        /\ UNCHANGED ticks
        /\ IF ~res.ok
           THEN /\ last' = Handled("ratelimit", r, NoFault,
                                   HttpError("rate limit exceeded", StatusTooManyRequests))
                /\ UNCHANGED <<licenses, now, cfg, issued, guardVars>>
           ELSE next

\* handlers.Health(), the file server and the redirect of "/": the routes
\* that touch neither the repository nor the guard.
OtherRoute(r) ==
    /\ last' = Handled("other", r, NoFault, HttpError("", StatusOK))
    /\ UNCHANGED <<licenses, now, cfg, issued, guardVars>>

\* The requests served concurrently: none; SignJSON and VerifyJSON: unused.
NoInflight == [x \in {} |-> 0]
NoTrial == [kind |-> "none"]

\* ------------------------------------------------------------------- clock
\* Time passes at the admin guard: the window, or a minute more.
Elapse(d) ==
    /\ now + d <= MaxAdminTime
    /\ now' = now + d
    /\ UNCHANGED <<licenses, cfg, last, issued, adminFailures, adminLog, runs>>

Tick ==
    /\ now < MaxTime
    /\ now' = now + 1
    /\ UNCHANGED <<licenses, cfg, last, issued>>

\* ----------------------------------------------------- the requests handled
\* The requests and the values drawn for a run come from a universe U: the
\* values uuid.NewString() (keys) and uuid.New() (ids) can return, the
\* license keys requests can name (reqKeys), the machine ids, the feature
\* maps, the configurations, and whether requests with the wrong method or
\* an undecodable body are drawn (malformed).
Request(method, body) == [body |-> body, method |-> method]

Malformed(U, rightMethod, zero) ==
    IF U.malformed
    THEN {Request(m, GoodBody(zero)) : m \in Methods \ {rightMethod}}
            \cup {Request(rightMethod, b) : b \in BadBodies(zero)}
    ELSE {}

ZeroIssueRequest == IssueRequest("", "", ZeroTime, NilMap)
IssueRequests(U) ==
    {IssueRequest(c, m, e, f) :
        c \in Customers, m \in U.machines, e \in U.instants, f \in U.features}
    \cup {IssueRequest("", "MID1", 1, NilMap), IssueRequest("Acme", "", 1, NilMap),
          IssueRequest("Acme", "MID1", ZeroTime, NilMap)}
IssueHTTP(U) ==
    {Request("POST", GoodBody(v)) : v \in IssueRequests(U)}
        \cup Malformed(U, "POST", ZeroIssueRequest)

ZeroKeyRequest == KeyRequest("", "")
KeyHTTP(U) ==
    {Request("POST", GoodBody(KeyRequest(k, ""))) : k \in U.reqKeys \cup {""}}
        \cup Malformed(U, "POST", ZeroKeyRequest)
ValidateHTTP(U) ==
    {Request("POST", GoodBody(KeyRequest(k, m))) : k \in U.reqKeys, m \in U.machines}
        \cup {Request("POST", GoodBody(KeyRequest("", "MID1"))),
              Request("POST", GoodBody(KeyRequest("k1", "")))}
        \cup Malformed(U, "POST", ZeroKeyRequest)

RFC3339Text(t) == [layout |-> "RFC3339", utc |-> t]
Garbage == [layout |-> "garbage", utc |-> ZeroTime]
ZeroUpdateRequest == UpdateRequest("", NilString, NilMap)
UpdateRequests(U) ==
    {UpdateRequest(k, e, f) :
        k \in U.reqKeys,
        e \in {NilString} \cup {RFC3339Text(t) : t \in U.instants},
        f \in U.features}
    \cup {UpdateRequest("", RFC3339Text(1), NilMap),
          UpdateRequest("k1", Garbage, NilMap)}
UpdateHTTP(U) ==
    {Request("POST", GoodBody(v)) : v \in UpdateRequests(U)}
        \cup Malformed(U, "POST", ZeroUpdateRequest)

ListHTTP(U) ==
    {Request("GET", GoodBody(ZeroKeyRequest))}
        \cup (IF U.malformed THEN {Request("POST", GoodBody(ZeroKeyRequest))} ELSE {})

\* The faults a request can meet: none before it reaches the repository.
Faults(reaches) == IF reaches THEN {Env(d, FALSE) : d \in BOOLEAN} ELSE {NoFault}
IssueFaults(reaches) ==
    IF reaches THEN {NoFault, Env(TRUE, FALSE), Env(FALSE, TRUE)} ELSE {NoFault}

\* ------------------------------------------------------------ specification
Configs ==
    [AdminAPIKey : {GoodToken}, AdminAPIKeyHashes : {<<>>},
     Driver : {"sqlite3", "pgx"}, PrivateKeyPEM : {"", "PEM"}, PublicKeyPEM : {"PUB"}]

NoRequest == Request("GET", GoodBody(ZeroKeyRequest))

\* Nothing is rate limited, served concurrently or signed.
LimitIdle ==
    /\ limiters = [c \in {} |-> 0]
    /\ ticks = 0
    /\ verdict = NoVerdict
    /\ streak = NoStreak
    /\ denials = NoDenials
SideInit ==
    /\ LimitIdle
    /\ inflight = NoInflight
    /\ trial = NoTrial

\* newFailureTracker(): an empty map.
EmptyTracker == [o \in {} |-> FreshState]

InitIn(U) ==
    /\ licenses = {}
    /\ now = 1
    /\ cfg \in U.configs
    /\ last = Handled("none", NoRequest, NoFault, HttpError("", StatusOK))
    /\ issued = {}
    /\ adminFailures = EmptyTracker
    /\ adminLog = {}
    /\ runs = [o \in {} |-> NoRun]
    /\ SideInit

NextIn(U) ==
    \/ /\ \E r \in IssueHTTP(U), id \in U.ids, k \in U.keys :
            \E env \in IssueFaults(IssueReachesInsert(r)) : IssueLicense(r, env, id, k)
       /\ UNCHANGED <<guardVars, sideVars>>
    \/ /\ \E r \in KeyHTTP(U) :
            \E env \in Faults(KeyedReachesExec(r)) : RevokeLicense(r, env)
       /\ UNCHANGED <<guardVars, sideVars>>
    \/ /\ \E r \in ValidateHTTP(U) :
            \E env \in Faults(KeyedReachesExec(r) /\ r.body.decoded.machine_id # "") :
                ValidateLicense(r, env)
       /\ UNCHANGED <<guardVars, sideVars>>
    \/ /\ \E r \in KeyHTTP(U) :
            \E env \in Faults(KeyedReachesExec(r)) : Heartbeat(r, env)
       /\ UNCHANGED <<guardVars, sideVars>>
    \/ /\ \E r \in UpdateHTTP(U) :
            \E env \in Faults(UpdateInputError(r).status = StatusOK) : UpdateLicense(r, env)
       /\ UNCHANGED <<guardVars, sideVars>>
    \/ /\ \E r \in ListHTTP(U) :
            \E env \in Faults(r.method = "GET") : ListLicenses(r, env)
       /\ UNCHANGED <<guardVars, sideVars>>
    \/ Tick /\ UNCHANGED <<guardVars, sideVars>>

\* --------------------------------------------- the requests the guard sees
\* A configuration of the admin secrets.
AdminConfig(key, hashes) ==
    [AdminAPIKey |-> key, AdminAPIKeyHashes |-> hashes, Driver |-> "sqlite3",
     PrivateKeyPEM |-> "PEM", PublicKeyPEM |-> "PUB"]

\* A plaintext key; no secret; hashes (an empty string and a string that is
\* no hash among them) next to a plaintext key.
PlainConfig == AdminConfig(GoodToken, <<>>)
NoSecretConfig == AdminConfig(<<>>, <<>>)
HashConfig == AdminConfig(GoodToken, <<EmptyHash, BadHash, BcryptHash(HashedToken)>>)

\* Authorization headers: absent; "Bearer " and a token; "BearerX" and a
\* token; seven other bytes and a token; "Bearer " alone.
NoHeader == <<>>
Bearer(token) == BearerPrefix \o token
BearerX(token) == <<"B", "e", "a", "r", "e", "r", "X">> \o token
OtherScheme(token) == <<"T", "o", "k", "e", "n", ":", " ">> \o token
Headers ==
    {NoHeader, Bearer(GoodToken), Bearer(HashedToken), Bearer(WrongToken),
     BearerX(GoodToken), BearerX(HashedToken), OtherScheme(GoodToken), Bearer(<<>>)}

\* Where a request comes from: RemoteAddr's host and X-Forwarded-For.
Origin(remote, xff) == [remote |-> remote, xff |-> xff]

\* The requests rs as the guard sees them, from every origin and with
\* every header of U.
Guarded(U, rs) ==
    {[authorization |-> ah, body |-> r.body, method |-> r.method,
      remote |-> o.remote, xff |-> o.xff] : r \in rs, ah \in U.headers, o \in U.origins}

\* A request the guard rejects is drawn while the run of its origin is
\* short of MaxFailures.
Drawn(r) ==
    AdminGuardRejects(cfg, r.authorization) => runs[adminFailureKey(r)].fails < MaxFailures

\* The waits of the clock at the guard: the window, and a minute more.
Waits == {adminFailureWindow, adminFailureWindow + 1}

AdminInitIn(U) ==
    /\ licenses = {}
    /\ now = 1
    /\ cfg \in U.configs
    /\ last = Handled("none", NoRequest, NoFault, HttpError("", StatusOK))
    /\ issued = {}
    /\ adminFailures = EmptyTracker
    /\ adminLog = {}
    /\ runs = [o \in {adminFailureKey(x) : x \in U.origins} |-> NoRun]
    /\ SideInit

\* The routes Server.Handler wraps in WithAdminKey.
AdminNextIn(U) ==
    \/ /\ \E r \in Guarded(U, IssueHTTP(U)), id \in U.ids, k \in U.keys :
            \E env \in IssueFaults(IssueReachesInsert(r)) :
                Drawn(r) /\ WithAdminKey(r, IssueLicense(r, env, id, k))
       /\ UNCHANGED sideVars
    \/ /\ \E r \in Guarded(U, KeyHTTP(U)) :
            \E env \in Faults(KeyedReachesExec(r)) :
                Drawn(r) /\ WithAdminKey(r, RevokeLicense(r, env))
       /\ UNCHANGED sideVars
    \/ /\ \E r \in Guarded(U, UpdateHTTP(U)) :
            \E env \in Faults(UpdateInputError(r).status = StatusOK) :
                Drawn(r) /\ WithAdminKey(r, UpdateLicense(r, env))
       /\ UNCHANGED sideVars
    \/ /\ \E r \in Guarded(U, ListHTTP(U)) :
            \E env \in Faults(r.method = "GET") :
                Drawn(r) /\ WithAdminKey(r, ListLicenses(r, env))
       /\ UNCHANGED sideVars
    \/ (\E d \in Waits : Elapse(d)) /\ UNCHANGED sideVars

\* One origin, every header, every configuration of the secrets. Issue is
\* the route that writes; the bodies of the others are turned down.
AdminAuth ==
    [configs |-> {PlainConfig, NoSecretConfig, HashConfig},
     features |-> {NilMap}, headers |-> Headers, ids |-> {"id1"},
     instants |-> {MaxTime}, keys |-> {"k1"}, machines |-> {"MID1"},
     malformed |-> FALSE, origins |-> {Origin("o1", <<>>)}, reqKeys |-> {}]

\* Two origins, one of them also behind a proxy that forwards for the
\* other; a right and a wrong token against a plaintext key. The bodies are
\* the ones the handlers turn down, so the table stays empty.
AdminOrigins ==
    [configs |-> {PlainConfig},
     features |-> {NilMap}, headers |-> {Bearer(GoodToken), Bearer(WrongToken)},
     ids |-> {"id1"}, instants |-> {}, keys |-> {"k1"},
     machines |-> {}, malformed |-> FALSE,
     origins |-> {Origin("o1", <<>>), Origin("o2", <<>>), Origin("o2", <<"o1", "o9">>)},
     reqKeys |-> {}]

\* One license key the server can issue, a second one requests can name;
\* two machines, every configuration.
OneKey ==
    [configs |-> Configs, features |-> {NilMap}, ids |-> {"id1"},
     instants |-> Instants, keys |-> {"k1"}, machines |-> Machines,
     malformed |-> FALSE, reqKeys |-> {"k1", "k2"}]

\* Two license keys and two ids the server can draw, one machine, one
\* configuration: enough for two rows to stand side by side.
TwoKeys ==
    [configs |-> {c \in Configs : c.Driver = "pgx" /\ c.PrivateKeyPEM = "PEM"},
     features |-> {NilMap}, ids |-> {"id1", "id2"}, instants |-> {1},
     keys |-> {"k1", "k2"}, machines |-> {"MID1"}, malformed |-> FALSE,
     reqKeys |-> {"k1", "k2"}]

\* One license, every feature map, one configuration.
Featured ==
    [configs |-> {c \in Configs : c.Driver = "sqlite3" /\ c.PrivateKeyPEM = "PEM"},
     features |-> FeatureMaps, ids |-> {"id1"}, instants |-> Instants,
     keys |-> {"k1"}, machines |-> {"MID1"}, malformed |-> FALSE,
     reqKeys |-> {"k1"}]

\* One license and one configuration, with the requests the handlers turn
\* down before the repository: other methods, bodies that are not one JSON
\* value, bodies the limit cuts.
Rejecting ==
    [configs |-> {c \in Configs : c.Driver = "sqlite3" /\ c.PrivateKeyPEM = "PEM"},
     features |-> {NilMap}, ids |-> {"id1"}, instants |-> {MaxTime},
     keys |-> {"k1"}, machines |-> {"MID1"}, malformed |-> TRUE,
     reqKeys |-> {"k1", "k2"}]

Init == InitIn(OneKey)
Next == NextIn(OneKey)
Spec == Init /\ [][Next]_vars

SpecTwoKeys == InitIn(TwoKeys) /\ [][NextIn(TwoKeys)]_vars

SpecFeatured == InitIn(Featured) /\ [][NextIn(Featured)]_vars

SpecRejecting == InitIn(Rejecting) /\ [][NextIn(Rejecting)]_vars

SpecAdminAuth == AdminInitIn(AdminAuth) /\ [][AdminNextIn(AdminAuth)]_vars

SpecAdminOrigins == AdminInitIn(AdminOrigins) /\ [][AdminNextIn(AdminOrigins)]_vars

\* The guard with a clock of shorter waits: half the window, and a minute
\* more, so that failures follow each other inside the window and the
\* first and the last of them lie further apart than the window.
ShortWaits == {adminFailureWindow \div 2, adminFailureWindow \div 2 + 1}

AdminWindowNext ==
    \/ /\ \E r \in Guarded(AdminOrigins, ListHTTP(AdminOrigins)) :
            \E env \in Faults(r.method = "GET") :
                Drawn(r) /\ WithAdminKey(r, ListLicenses(r, env))
       /\ UNCHANGED sideVars
    \/ (\E d \in ShortWaits : Elapse(d)) /\ UNCHANGED sideVars

SpecAdminWindow == AdminInitIn(AdminOrigins) /\ [][AdminWindowNext]_vars

\* ------------------------------------------------------ the whole handler
\* The requests rs as Server.Handler sees them on a path.
Routed(U, path, rs) ==
    {[authorization |-> r.authorization, body |-> r.body, method |-> r.method,
      path |-> path, remote |-> r.remote, xff |-> r.xff] : r \in Guarded(U, rs)}

\* Two admins, each with a hashed token; the same, and a hash of the empty
\* token.
TwoAdminsConfig ==
    AdminConfig(<<>>, <<BcryptHash(GoodToken), BcryptHash(HashedToken)>>)

\* The whole tokens missing from the buckets of the keys ks of limiter l.
RECURSIVE SpentBy(_, _)
SpentBy(l, ks) ==
    IF ks = {} THEN 0
    ELSE LET k == CHOOSE x \in ks : TRUE
         IN  (l.burst - l.buckets[k].tokens) \div OneToken
                 + SpentBy(l, ks \ {k})

Spent ==
    SpentBy(limiters.fast, DOMAIN limiters.fast.buckets)
        + SpentBy(limiters.admin, DOMAIN limiters.admin.buckets)
        + SpentBy(limiters.deflt, DOMAIN limiters.deflt.buckets)

\* A request comes while the limiters have handed out fewer than MaxSpent
\* tokens.
InBurst == Spent < MaxSpent

ServerInitIn(U) ==
    /\ licenses = {}
    /\ now = 1
    /\ cfg \in U.configs
    /\ last = Handled("none", NoRequest, NoFault, HttpError("", StatusOK))
    /\ issued = {}
    /\ adminFailures = EmptyTracker
    /\ adminLog = {}
    /\ runs = [o \in {adminFailureKey(x) : x \in U.origins} |-> NoRun]
    /\ limiters = NewLimiters(0)
    /\ ticks = 0
    /\ verdict = NoVerdict
    /\ streak = NoStreak
    /\ denials = NoDenials
    /\ inflight = NoInflight
    /\ trial = NoTrial

\* Server.Handler: WithRateLimit around the mux, WithAdminKey around the
\* admin routes.
ServerNextIn(U) ==
    \/ /\ \E r \in Routed(U, "issue", IssueHTTP(U)), id \in U.ids, k \in U.keys :
            \E env \in IssueFaults(IssueReachesInsert(r)) :
                Drawn(r) /\ InBurst /\ WithRateLimit(r, WithAdminKey(r, IssueLicense(r, env, id, k)))
       /\ UNCHANGED <<inflight, trial>>
    \/ /\ \E r \in Routed(U, "revoke", KeyHTTP(U)) :
            \E env \in Faults(KeyedReachesExec(r)) :
                Drawn(r) /\ InBurst /\ WithRateLimit(r, WithAdminKey(r, RevokeLicense(r, env)))
       /\ UNCHANGED <<inflight, trial>>
    \/ /\ \E r \in Routed(U, "update", UpdateHTTP(U)) :
            \E env \in Faults(UpdateInputError(r).status = StatusOK) :
                Drawn(r) /\ InBurst /\ WithRateLimit(r, WithAdminKey(r, UpdateLicense(r, env)))
       /\ UNCHANGED <<inflight, trial>>
    \/ /\ \E r \in Routed(U, "list", ListHTTP(U)) :
            \E env \in Faults(r.method = "GET") :
                Drawn(r) /\ InBurst /\ WithRateLimit(r, WithAdminKey(r, ListLicenses(r, env)))
       /\ UNCHANGED <<inflight, trial>>
    \/ /\ \E r \in Routed(U, "validate", ValidateHTTP(U)) :
            \E env \in Faults(KeyedReachesExec(r) /\ r.body.decoded.machine_id # "") :
                InBurst /\ WithRateLimit(r, ValidateLicense(r, env) /\ UNCHANGED guardVars)
       /\ UNCHANGED <<inflight, trial>>
    \/ /\ \E r \in Routed(U, "heartbeat", KeyHTTP(U)) :
            \E env \in Faults(KeyedReachesExec(r)) :
                InBurst /\ WithRateLimit(r, Heartbeat(r, env) /\ UNCHANGED guardVars)
       /\ UNCHANGED <<inflight, trial>>
    \/ /\ \E r \in Routed(U, "other", ListHTTP(U)) :
            InBurst /\ WithRateLimit(r, OtherRoute(r))
       /\ UNCHANGED <<inflight, trial>>

\* One origin, the token of an admin and a wrong token, on every route; one
\* license that can be issued. The limiters' clock stands still: the
\* requests of one instant.
Served ==
    [configs |-> {TwoAdminsConfig},
     features |-> {NilMap},
     headers |-> {Bearer(GoodToken), Bearer(WrongToken)},
     ids |-> {"id1"}, instants |-> {MaxTime}, keys |-> {"k1"},
     machines |-> {"MID1"}, malformed |-> FALSE,
     origins |-> {Origin("o1", <<>>)},
     reqKeys |-> {}]

SpecServer == ServerInitIn(Served) /\ [][ServerNextIn(Served)]_vars

\* ------------------------------------------------------ concurrent callers
\* Handlers run one goroutine a request. A mutating handler touches the
\* table in one statement, db.ExecContext of an UPDATE ... WHERE
\* license_key = $1, and answers from its RowsAffected.

\* The SET clause of the statement of an operation, on one row.
Mutation(op, req, row) ==
    CASE op = "revoke" -> RevokeRow(row)
      [] op = "heartbeat" -> HeartbeatRow(row)
      [] op = "update" -> UpdateRow(req, row)

\* One statement: the rows of seen with the key are matched, their new
\* values replace the rows of table with the key.
StatementOn(table, seen, op, req) ==
    LET matched == {row \in seen : row.license_key = req.license_key}
    IN  [rows |-> Cardinality(matched),
         table |-> {row \in table : row.license_key # req.license_key}
                       \cup {Mutation(op, req, row) : row \in matched}]

\* The table as it was before the callers came: one license, issued at
\* instant 1.
StartTable ==
    {[NewRow("id1", "k1", IssueRequest("Acme", "MID1", 1, NilMap))
        EXCEPT !.created_at = 1, !.updated_at = 1]}

\* mutant (C26): the statement works on the rows read before the callers
\* came and writes them back.
StatementSeesStale == StartTable

\* The rows a statement matches and updates: the table as it is when the
\* statement runs.
StatementSees == licenses

Callers == 1..MaxCallers

\* The requests of the callers: the license, another key, two expiries.
CallerRequests(op) ==
    IF op = "update"
    THEN {Request("POST", GoodBody(UpdateRequest(k, RFC3339Text(t), NilMap))) :
            k \in {"k1", "k2"}, t \in {MaxTime}}
    ELSE {Request("POST", GoodBody(KeyRequest(k, ""))) : k \in {"k1", "k2"}}

\* A caller's request has been decoded and is about to run its statement.
Arrive(s, op, r) ==
    /\ s \notin DOMAIN inflight
    /\ inflight' = [x \in DOMAIN inflight \cup {s} |->
                        IF x = s
                        THEN [op |-> op, pc |-> "exec", request |-> r, rows |-> 0]
                        ELSE inflight[x]]
    /\ UNCHANGED <<licenses, now, cfg, last, issued, guardVars, limitVars, trial>>

\* db.ExecContext.
Exec(s) ==
    /\ s \in DOMAIN inflight
    /\ inflight[s].pc = "exec"
    /\ LET c == inflight[s]
           res == StatementOn(licenses, StatementSees, c.op, c.request.body.decoded)
       IN  /\ licenses' = res.table
           /\ inflight' = [inflight EXCEPT ![s] = [c EXCEPT !.pc = "answer", !.rows = res.rows]]
    /\ UNCHANGED <<now, cfg, last, issued, guardVars, limitVars, trial>>

\* RowsAffected and the response.
Answer(s) ==
    /\ s \in DOMAIN inflight
    /\ inflight[s].pc = "answer"
    /\ LET c == inflight[s]
       IN  /\ last' = Handled(c.op, c.request, NoFault,
                              IF c.op = "update"
                              THEN UpdateResponse(c.request, NoFault, c.rows)
                              ELSE KeyedResponse(c.op, c.request, NoFault, c.rows))
           /\ inflight' = [inflight EXCEPT ![s] = [c EXCEPT !.pc = "done"]]
    /\ UNCHANGED <<licenses, now, cfg, issued, guardVars, limitVars, trial>>

ConcurrentInit ==
    /\ now = MaxTime
    /\ cfg \in Configs
    /\ licenses = StartTable
    /\ last = Handled("none", NoRequest, NoFault, HttpError("", StatusOK))
    /\ issued = {}
    /\ adminFailures = EmptyTracker
    /\ adminLog = {}
    /\ runs = [o \in {} |-> NoRun]
    /\ SideInit

ConcurrentNext ==
    \/ \E s \in Callers, op \in {"revoke", "heartbeat", "update"} :
            \E r \in CallerRequests(op) : Arrive(s, op, r)
    \/ \E s \in Callers : Exec(s)
    \/ \E s \in Callers : Answer(s)

SpecConcurrent == ConcurrentInit /\ [][ConcurrentNext]_vars

\* ------------------------------------------------------ bodies of every size
\* Bodies around the limit of maxJSONBody bytes: one value, short, as long
\* as the limit, and followed by white space that runs past the limit; a
\* value followed by another within the limit; a syntax error at the start
\* of a short and of an oversized body; a value the limit cuts.
SizedBodies(v, zero) ==
    {Body("value", FALSE, 2, v), Body("value", FALSE, maxJSONBody, v),
     Body("value", FALSE, maxJSONBody + 1, v),
     Body("value", TRUE, 4, zero),
     Body("syntax", FALSE, 2, zero), Body("syntax", FALSE, maxJSONBody + 1, zero),
     Body("cut", FALSE, maxJSONBody + 1, zero)}

SizedKeyHTTP ==
    {Request("POST", b) : b \in SizedBodies(KeyRequest("k1", "MID1"), ZeroKeyRequest)}
SizedUpdateHTTP ==
    {Request("POST", b) :
        b \in SizedBodies(UpdateRequest("k1", RFC3339Text(MaxTime), NilMap),
                          ZeroUpdateRequest)}
SizedIssueHTTP ==
    {Request("POST", b) :
        b \in SizedBodies(IssueRequest("Acme", "MID2", MaxTime, NilMap), ZeroIssueRequest)}

BodiesInit ==
    /\ now = MaxTime
    /\ cfg \in Configs
    /\ licenses = StartTable
    /\ last = Handled("none", NoRequest, NoFault, HttpError("", StatusOK))
    /\ issued = {}
    /\ adminFailures = EmptyTracker
    /\ adminLog = {}
    /\ runs = [o \in {} |-> NoRun]
    /\ SideInit

BodiesNext ==
    \/ /\ \E r \in SizedIssueHTTP : IssueLicense(r, NoFault, "id2", "k2")
       /\ UNCHANGED <<guardVars, sideVars>>
    \/ /\ \E r \in SizedKeyHTTP : RevokeLicense(r, NoFault)
       /\ UNCHANGED <<guardVars, sideVars>>
    \/ /\ \E r \in SizedKeyHTTP : ValidateLicense(r, NoFault)
       /\ UNCHANGED <<guardVars, sideVars>>
    \/ /\ \E r \in SizedKeyHTTP : Heartbeat(r, NoFault)
       /\ UNCHANGED <<guardVars, sideVars>>
    \/ /\ \E r \in SizedUpdateHTTP : UpdateLicense(r, NoFault)
       /\ UNCHANGED <<guardVars, sideVars>>

SpecBodies == BodiesInit /\ [][BodiesNext]_vars

\* ------------------------------------------------------ signatures
\* package crypto, to the byte. A claim map holds typed values; a number is
\* an int or a float64 in Go, and json.Marshal writes both without a
\* fraction when they are whole.
IntValue(n) == [kind |-> "int", val |-> n]
FloatValue(n) == [kind |-> "float64", val |-> n]
StringValue(t) == [kind |-> "string", val |-> t]

\* json.Marshal of one value and of a map: keys sorted, values as JSON
\* tokens.
MarshalValue(v) ==
    IF v.kind = "string" THEN <<"string", v.val>> ELSE <<"number", v.val>>
MarshalMap(payload) == [k \in DOMAIN payload |-> MarshalValue(payload[k])]

\* sha256.Sum256, taken to be free of collisions.
Sum256(b) == <<"sha256", b>>

\* The public key of a private key.
PublicOf(priv) == <<"pub", priv>>

\* ecdsa.Sign with the randomness k read from rand.Reader, and the pair
\* (r, n - s) made from a signature (r, s) without the key.
EcdsaSign(priv, h, k) == [digest |-> h, high |-> FALSE, nonce |-> k, signer |-> priv]
Negated(es) == [es EXCEPT !.high = ~@]

\* ecdsa.Verify: the pair satisfies the verification equation of the key
\* and the digest, which (r, s) and (r, n - s) both do.
EcdsaVerify(pub, h, es) == pub = PublicOf(es.signer) /\ es.digest = h

\* asn1.Marshal of the pair and asn1.Unmarshal, which parses one value and
\* returns the bytes after it.
Asn1Marshal(es) == [rest |-> <<>>, seq |-> <<es>>]
Asn1Unmarshal(b) ==
    IF b.seq = <<>> THEN [err |-> TRUE, rest |-> b.rest, val |-> <<>>]
    ELSE [err |-> FALSE, rest |-> b.rest, val |-> b.seq[1]]

\* base64.RawURLEncoding: EncodeToString writes no line break and zero
\* bits after the last byte; DecodeString skips line breaks, does not look
\* at the bits after the last byte, and fails on a character outside the
\* alphabet.
EncodeToString(b) == [breaks |-> FALSE, bytes |-> b, illegal |-> FALSE, slack |-> 0]
DecodeString(t) == [bytes |-> t.bytes, err |-> t.illegal]

\* SignJSON, as the string it returns.
SignJSONString(priv, payload, k) ==
    EncodeToString(Asn1Marshal(EcdsaSign(priv, Sum256(MarshalMap(payload)), k)))

VerifyJSON(pub, payload, sigB64) ==
    LET h == Sum256(MarshalMap(payload))
        sig == DecodeString(sigB64)
        es == Asn1Unmarshal(sig.bytes)
    IN  IF sig.err \/ es.err THEN [err |-> TRUE, ok |-> FALSE]
        ELSE [err |-> FALSE, ok |-> EcdsaVerify(pub, h, es.val)]

\* Claim maps: two customers, a count as an int and as a float64, a map
\* with one more key.
ClaimMaps ==
    {[customer |-> StringValue("Acme"), seats |-> IntValue(1)],
     [customer |-> StringValue("Acme"), seats |-> FloatValue(1)],
     [customer |-> StringValue("Acme"), seats |-> IntValue(2)],
     [customer |-> StringValue("Bolt"), seats |-> IntValue(1)],
     [customer |-> StringValue("Acme")]}

SigningKeys == {"PEM", "PEM2"}
Nonces == {"n1", "n2"}

\* Signature strings made from a produced one: itself, with a line break,
\* with other bits after the last byte, with bytes after the DER value,
\* with s negated, with a character outside the alphabet, and the
\* signatures of another payload, another key, another nonce.
StringsFrom(t) ==
    {t, [t EXCEPT !.breaks = TRUE], [t EXCEPT !.slack = 1],
     [t EXCEPT !.illegal = TRUE],
     [t EXCEPT !.bytes.rest = <<0>>],
     [t EXCEPT !.bytes.seq = <<Negated(t.bytes.seq[1])>>],
     [t EXCEPT !.bytes.seq = <<>>]}
SignatureStrings(produced) ==
    StringsFrom(produced)
        \cup {SignJSONString(priv, c, k) : priv \in SigningKeys, c \in ClaimMaps, k \in Nonces}

CryptoInit ==
    /\ licenses = {}
    /\ now = 1
    /\ cfg = PlainConfig
    /\ last = Handled("none", NoRequest, NoFault, HttpError("", StatusOK))
    /\ issued = {}
    /\ adminFailures = EmptyTracker
    /\ adminLog = {}
    /\ runs = [o \in {} |-> NoRun]
    /\ LimitIdle
    /\ inflight = NoInflight
    /\ \E priv \in SigningKeys, c \in ClaimMaps :
            trial = [claims |-> c, kind |-> "sign", signer |-> priv]

\* SignJSON with fresh randomness.
SignTrial ==
    /\ trial.kind = "sign"
    /\ \E k \in Nonces :
            trial' = [claims |-> trial.claims, kind |-> "signed",
                      produced |-> SignJSONString(trial.signer, trial.claims, k),
                      signer |-> trial.signer]
    /\ UNCHANGED <<licenses, now, cfg, last, issued, guardVars, limitVars, inflight>>

\* VerifyJSON of some claim map and some signature string under some
\* public key.
VerifyTrial ==
    /\ trial.kind = "signed"
    /\ \E pub \in {PublicOf(x) : x \in SigningKeys}, c \in ClaimMaps,
          t \in SignatureStrings(trial.produced) :
            trial' = [claims |-> trial.claims, kind |-> "verified",
                      ok |-> VerifyJSON(pub, c, t).ok, presented |-> t,
                      produced |-> trial.produced, pub |-> pub,
                      signer |-> trial.signer, verified |-> c]
    /\ UNCHANGED <<licenses, now, cfg, last, issued, guardVars, limitVars, inflight>>

CryptoNext == SignTrial \/ VerifyTrial

SpecCrypto == CryptoInit /\ [][CryptoNext]_vars

\* ------------------------------------------------------ the key of a request
\* Configurations with hashed tokens, with a plaintext token, with neither.
KeyConfigs == {TwoAdminsConfig, HashConfig, PlainConfig, NoSecretConfig}

\* Origins with and without X-Forwarded-For, the forwarded hop equal to
\* another client's address, an empty first hop.
KeyOrigins ==
    {Origin("o1", <<>>), Origin("o2", <<>>), Origin("o2", <<"o1">>),
     Origin("o1", <<"", "o2">>)}

\* What rateKey and the guard make of one request.
Keyed(c, r) ==
    [accepted |-> ~AdminGuardRejects(c, r.authorization), key |-> rateKey(c, r),
     request |-> r]

\* The requests a key is asked for.
KeyRequests ==
    {[authorization |-> ah, remote |-> o.remote, xff |-> o.xff] :
        ah \in Headers, o \in KeyOrigins}

KeysInit ==
    /\ licenses = {}
    /\ now = 1
    /\ cfg \in KeyConfigs
    /\ last = Handled("none", NoRequest, NoFault, HttpError("", StatusOK))
    /\ issued = {}
    /\ adminFailures = EmptyTracker
    /\ adminLog = {}
    /\ runs = [o \in {} |-> NoRun]
    /\ LimitIdle
    /\ inflight = NoInflight
    /\ \E r1 \in KeyRequests, r2 \in KeyRequests :
            trial = [kind |-> "ask", left |-> r1, right |-> r2]

KeysNext ==
    /\ trial.kind = "ask"
    /\ trial' = [kind |-> "key", left |-> Keyed(cfg, trial.left),
                 right |-> Keyed(cfg, trial.right)]
    /\ UNCHANGED <<licenses, now, cfg, last, issued, guardVars, limitVars, inflight>>

SpecKeys == KeysInit /\ [][KeysNext]_vars

\* ------------------------------------------------------ one limiter, alone
\* Limiters of several shapes <<rps, burst, ttl>>: half a token a tick, a
\* tenth of a token a tick with a TTL too short to refill in, two tokens a
\* tick.
LimiterShapes == {<<5, 2, 3>>, <<1, 1, 2>>, <<20, 3, 3>>}
LimiterKeys == {"ip:o1", "ip:o2"}

\* The server has served nothing.
ServerIdle ==
    /\ licenses = {}
    /\ now = 1
    /\ cfg = PlainConfig
    /\ last = Handled("none", NoRequest, NoFault, HttpError("", StatusOK))
    /\ issued = {}
    /\ adminFailures = EmptyTracker
    /\ adminLog = {}
    /\ runs = [o \in {} |-> NoRun]

LimiterInit ==
    /\ ServerIdle
    /\ \E shape \in LimiterShapes :
        limiters = [c \in {"unit"} |-> newLimiter(shape[1], shape[2], shape[3], 0)]
    /\ ticks = 0
    /\ verdict = NoVerdict
    /\ streak = NoStreak
    /\ denials = NoDenials
    /\ inflight = NoInflight
    /\ trial = NoTrial

LimiterNext ==
    \/ /\ \E key \in LimiterKeys : AllowCall("unit", key)
       /\ UNCHANGED <<licenses, now, cfg, last, issued, guardVars, inflight, trial>>
    \/ /\ \E d \in 1..(limiters["unit"].ttl + 1) : Pass(d)
       /\ UNCHANGED <<licenses, now, cfg, last, issued, guardVars, inflight, trial>>

SpecLimiter == LimiterInit /\ [][LimiterNext]_vars

\* ------------------------------- a configured limiter and one that keeps
\* A limiter with the same parameters that never evicts: allow with the
\* sweep never due.
allowKeeping(l, key, t) == allow([l EXCEPT !.lastSweep = t], key, t)

\* One of the limiters WithRateLimit creates, as "unit", and beside it, as
\* "kept", the limiter that never evicts.
EvictionInit ==
    /\ ServerIdle
    /\ \E category \in DOMAIN NewLimiters(0) :
        limiters = [c \in {"kept", "unit"} |-> NewLimiters(0)[category]]
    /\ ticks = 0
    /\ verdict = NoVerdict
    /\ streak = NoStreak
    /\ denials = NoDenials
    /\ inflight = NoInflight
    /\ trial = NoTrial

\* A call l.allow(key) on the limiter, and the same call on the one that
\* keeps.
EvictionCall(key) ==
    LET res == allow(limiters["unit"], key, ticks)
        kept == allowKeeping(limiters["kept"], key, ticks)
    IN  /\ limiters' = [c \in {"kept", "unit"} |->
                            IF c = "unit" THEN res.limiter ELSE kept.limiter]
        /\ verdict' = Verdict("unit", key, res)
        /\ streak' = StreakAfter("unit", key, res)
        /\ denials' = DenialsAfter("unit", key, res)
        /\ UNCHANGED ticks

\* Time passes: a tick, the TTL, or a tick more than the TTL, up to
\* MaxSweeps TTLs and MaxLinger ticks.
Linger(d) ==
    /\ (ticks + d) \div TenMinutes <= MaxSweeps
    /\ (ticks + d) % TenMinutes <= MaxLinger
    /\ ticks' = ticks + d
    /\ streak' = NoStreak
    /\ UNCHANGED <<limiters, verdict, denials>>

EvictionNext ==
    \/ /\ \E key \in LimiterKeys : EvictionCall(key)
       /\ UNCHANGED <<licenses, now, cfg, last, issued, guardVars, inflight, trial>>
    \/ /\ \E d \in {1, TenMinutes, TenMinutes + 1} : Linger(d)
       /\ UNCHANGED <<licenses, now, cfg, last, issued, guardVars, inflight, trial>>

SpecEviction == EvictionInit /\ [][EvictionNext]_vars

\* ------------------------------------------- concurrent callers of allow
\* A caller of allow is at l.mu.Lock ("lock"), has read the clock, the
\* sweep time and the buckets ("write"), has written the buckets back and
\* is about to return and unlock ("unlock"), or has returned ("done").
\* What allow returns to a caller; `created`: the call made the bucket.
AllowResult(l, key, t) ==
    LET res == allow(l, key, t)
    IN  [created |-> key \notin DOMAIN Sweep(l, t).buckets, ok |-> res.ok,
         remaining |-> res.remaining, retryAfter |-> res.retryAfter]
NoResult ==
    [created |-> FALSE, ok |-> FALSE, remaining |-> 0, retryAfter |-> [den |-> 1, num |-> 0]]

\* mutant (C34): allow takes no lock.
MutexIgnored == TRUE

\* l.mu is free: no caller is between Lock and Unlock.
MutexFree == \A s \in DOMAIN inflight : inflight[s].pc \notin {"write", "unlock"}

\* A goroutine calls l.allow(key).
CallAllow(s, key) ==
    /\ s \notin DOMAIN inflight
    /\ inflight' = [x \in DOMAIN inflight \cup {s} |->
                        IF x = s
                        THEN [at |-> 0, key |-> key, op |-> "allow", pc |-> "lock",
                              result |-> NoResult, seen |-> limiters["unit"]]
                        ELSE inflight[x]]
    /\ UNCHANGED <<licenses, now, cfg, last, issued, guardVars, limitVars, trial>>

\* l.mu.Lock(); now := time.Now(), and the reads of l.lastSweep and
\* l.buckets.
LockAndRead(s) ==
    /\ s \in DOMAIN inflight
    /\ inflight[s].pc = "lock"
    /\ MutexFree
    /\ inflight' = [inflight EXCEPT ![s] = [@ EXCEPT !.at = ticks, !.pc = "write",
                                                     !.seen = limiters["unit"]]]
    /\ UNCHANGED <<licenses, now, cfg, last, issued, guardVars, limitVars, trial>>

\* The writes of allow: the sweep, the bucket made, refilled and drawn on.
WriteBack(s) ==
    /\ s \in DOMAIN inflight
    /\ inflight[s].pc = "write"
    /\ LET c == inflight[s]
       IN  /\ limiters' = [limiters EXCEPT !["unit"] = allow(c.seen, c.key, c.at).limiter]
           /\ inflight' = [inflight EXCEPT ![s] =
                                [c EXCEPT !.pc = "unlock",
                                          !.result = AllowResult(c.seen, c.key, c.at)]]
    /\ UNCHANGED <<licenses, now, cfg, last, issued, guardVars, ticks, verdict,
                   streak, denials, trial>>

\* return, and the deferred l.mu.Unlock().
UnlockAndReturn(s) ==
    /\ s \in DOMAIN inflight
    /\ inflight[s].pc = "unlock"
    /\ inflight' = [inflight EXCEPT ![s].pc = "done"]
    /\ UNCHANGED <<licenses, now, cfg, last, issued, guardVars, limitVars, trial>>

\* Time passes while calls are in flight.
PassInFlight(d) ==
    /\ Pass(d)
    /\ UNCHANGED <<licenses, now, cfg, last, issued, guardVars, inflight, trial>>

AllowersNext ==
    \/ \E s \in Callers, key \in LimiterKeys : CallAllow(s, key)
    \/ \E s \in Callers : LockAndRead(s)
    \/ \E s \in Callers : WriteBack(s)
    \/ \E s \in Callers : UnlockAndReturn(s)
    \/ \E d \in {1, limiters["unit"].ttl + 1} : PassInFlight(d)

SpecAllowers == LimiterInit /\ [][AllowersNext]_vars

\* ------------------------------------- concurrent requests at the guard
\* Admin requests of one origin served concurrently. A request is at
\* t.mu.Lock ("lock"), holds the lock and has read the state of its origin
\* ("write"), or has written, unlocked and been answered ("done").
Knockers == 1..MaxFailures
KnockOrigin == Origin("o1", <<>>)
KnockKey == adminFailureKey(KnockOrigin)

\* mutant (C35): the tracker takes no lock.
TrackerLockIgnored == TRUE

\* t.mu is free: no request is between Lock and Unlock.
TrackerFree == \A s \in DOMAIN inflight : inflight[s].pc # "write"

\* The next request arrives, with a wrong token or, once, with the right
\* one.
Knock(s, ah) ==
    /\ s = Cardinality(DOMAIN inflight) + 1
    /\ ~AdminGuardRejects(cfg, ah) =>
            \A x \in DOMAIN inflight : AdminGuardRejects(cfg, inflight[x].ah)
    /\ inflight' = [x \in DOMAIN inflight \cup {s} |->
                        IF x = s
                        THEN [ah |-> ah, alert |-> FALSE, count |-> 0, pc |-> "lock",
                              seen |-> FreshState, turn |-> 0]
                        ELSE inflight[x]]
    /\ UNCHANGED <<licenses, now, cfg, last, issued, guardVars, limitVars, trial>>

\* t.mu.Lock() of recordFailure and of reset, and the read of t.state[key].
LockTracker(s) ==
    /\ s \in DOMAIN inflight
    /\ inflight[s].pc = "lock"
    /\ TrackerFree
    /\ inflight' = [inflight EXCEPT ![s] = [@ EXCEPT !.pc = "write",
                                                     !.seen = FailureStateAt(KnockKey, now)]]
    /\ UNCHANGED <<licenses, now, cfg, last, issued, guardVars, limitVars, trial>>

\* The writes of recordFailure or of reset, the unlock, the ALERT line and
\* the answer; `turn` numbers the writes.
WriteTracker(s) ==
    /\ s \in DOMAIN inflight
    /\ inflight[s].pc = "write"
    /\ LET c == inflight[s]
           failure == CountFailure(c.seen)
           turn == Cardinality({x \in DOMAIN inflight : inflight[x].pc = "done"}) + 1
       IN  IF AdminGuardRejects(cfg, c.ah)
           THEN /\ adminFailures' = TrackerWith(KnockKey, failure.state)
                /\ adminLog' = IF failure.alert
                               THEN {[count |-> failure.count, remote |-> KnockKey]}
                               ELSE {}
                /\ runs' = [runs EXCEPT ![KnockKey] = RunAfterFailure(@, now, failure.alert)]
                /\ inflight' = [inflight EXCEPT ![s] =
                                    [c EXCEPT !.alert = failure.alert, !.count = failure.count,
                                              !.pc = "done", !.turn = turn]]
           ELSE /\ adminFailures' = TrackerReset(KnockKey)
                /\ adminLog' = {}
                /\ runs' = [runs EXCEPT ![KnockKey] = RunAfterSuccess(@)]
                /\ inflight' = [inflight EXCEPT ![s] = [c EXCEPT !.pc = "done", !.turn = turn]]
    /\ UNCHANGED <<licenses, now, cfg, last, issued, limitVars, trial>>

KnockersInit ==
    /\ licenses = {}
    /\ now = 1
    /\ cfg = PlainConfig
    /\ last = Handled("none", NoRequest, NoFault, HttpError("", StatusOK))
    /\ issued = {}
    /\ adminFailures = EmptyTracker
    /\ adminLog = {}
    /\ runs = [o \in {KnockKey} |-> NoRun]
    /\ SideInit

KnockersNext ==
    \/ \E s \in Knockers, ah \in {Bearer(GoodToken), Bearer(WrongToken)} : Knock(s, ah)
    \/ \E s \in Knockers : LockTracker(s)
    \/ \E s \in Knockers : WriteTracker(s)

SpecKnockers == KnockersInit /\ [][KnockersNext]_vars

\* ------------------------------------- the plaintext comparison, by steps
\* Bytes of ByteBits bits; a ^ b and a | b bit by bit.
Bytes == 0..(2^ByteBits - 1)
Bit(n, k) == (n \div 2^k) % 2
RECURSIVE BitSum(_, _, _, _)
BitSum(Op(_, _), a, b, k) ==
    IF k = ByteBits THEN 0
    ELSE Op(Bit(a, k), Bit(b, k)) * 2^k + BitSum(Op, a, b, k + 1)
BitXor(x, y) == (x + y) % 2
BitOr(x, y) == IF x + y > 0 THEN 1 ELSE 0
Xor(a, b) == BitSum(BitXor, a, b, 0)
Or(a, b) == BitSum(BitOr, a, b, 0)

\* The strings of up to n bytes.
BytesUpTo(n) == UNION {[1..k -> Bytes] : k \in 0..n}

\* AdminKeyOK with no hashes configured is about to compare a presented
\* token with the plaintext key: `examined` are the positions the loop has
\* been at.
CompareInit ==
    /\ ServerIdle
    /\ LimitIdle
    /\ inflight = NoInflight
    /\ \E want \in BytesUpTo(MaxKeyLen) \ {<<>>}, got \in BytesUpTo(MaxKeyLen) :
            trial = [examined |-> {}, got |-> got, i |-> 1, kind |-> "compare",
                     match |-> 0, ok |-> FALSE, pc |-> "length", want |-> want]

\* mutant (C36): the loop ends at the first byte that differs.
LoopStopsAtMismatch(t) == t.i <= Len(t.got) /\ t.match = 0

\* for i := range gotBytes
LoopGoesOn(t) == t.i <= Len(t.got)

\* if len(gotBytes) != len(wantBytes) { return false }
CheckLength ==
    /\ trial.pc = "length"
    /\ trial' = [trial EXCEPT !.pc = IF Len(trial.got) # Len(trial.want)
                                      THEN "done" ELSE "loop"]
    /\ UNCHANGED <<licenses, now, cfg, last, issued, guardVars, limitVars, inflight>>

\* match |= int(wantBytes[i] ^ gotBytes[i])
ExamineByte ==
    /\ trial.pc = "loop"
    /\ LoopGoesOn(trial)
    /\ trial' = [trial EXCEPT
                    !.examined = @ \cup {trial.i},
                    !.i = @ + 1,
                    !.match = Or(@, Xor(trial.want[trial.i], trial.got[trial.i]))]
    /\ UNCHANGED <<licenses, now, cfg, last, issued, guardVars, limitVars, inflight>>

\* return match == 0
ReturnMatch ==
    /\ trial.pc = "loop"
    /\ ~LoopGoesOn(trial)
    /\ trial' = [trial EXCEPT !.ok = trial.match = 0, !.pc = "done"]
    /\ UNCHANGED <<licenses, now, cfg, last, issued, guardVars, limitVars, inflight>>

CompareNext == CheckLength \/ ExamineByte \/ ReturnMatch

SpecCompare == CompareInit /\ [][CompareNext]_vars

\* --------------------------------------------------------------- properties
\* The instant a row's expires_at column holds.
RowExpires(row) == row.expires_at.utc

\* The request handled last, decoded.
LastReq == last.request.body.decoded

\* The request handled last was a POST with a decodable body.
LastDecoded == last.request.method = "POST" /\ decodeJSON(last.request.body).ok

\* The last request was a validate request carrying both fields, and the
\* repository answered the lookup.  The table is the one the handler read:
\* ValidateLicense changes no row and any other handler replaces `last`.
ValidateServed ==
    /\ last.op = "validate"
    /\ LastDecoded
    /\ LastReq.license_key # ""
    /\ LastReq.machine_id # ""
    /\ ~last.env.dbErr

\* The step handles a request in handler `op`.
Handles(op) == last'.op = op /\ now' = now

\* The request of the step was a POST with a decodable body.
StepDecoded == last'.request.method = "POST" /\ decodeJSON(last'.request.body).ok
StepReq == last'.request.body.decoded

MismatchBody == ValidateResponse(FALSE, FALSE, ZeroTime, "machine mismatch")

\* C1: a validate request (both fields present, lookup answered) whose
\* license_key names a record with another machine_id is answered 200 with
\* valid=false and reason "machine mismatch", whatever the record's revoked
\* flag and expires_at are.
C1_MismatchFirst ==
    ValidateServed =>
        \A row \in RowsByKey(LastReq.license_key) :
            row.machine_id # LastReq.machine_id =>
                /\ last.status = StatusOK
                /\ last.body.kind = "validate"
                /\ last.body.valid = FALSE
                /\ last.body.reason = "machine mismatch"

\* A mismatch answer given for a record that is both revoked and expired.
C1_Witness ==
    /\ ValidateServed
    /\ last.body = MismatchBody
    /\ \E row \in RowsByKey(LastReq.license_key) :
        /\ row.machine_id # LastReq.machine_id
        /\ row.revoked
        /\ RowExpires(row) < last.at

\* Every revoked row is still there, and still revoked, after the step.
RevokedStays ==
    \A row \in licenses :
        row.revoked =>
            \E kept \in licenses' :
                kept.id = row.id /\ kept.license_key = row.license_key /\ kept.revoked

\* A validate request of the bound machine for a revoked record is
\* answered valid=false, revoked=true, reason "revoked".
RevokedAnswered ==
    ValidateServed =>
        \A row \in RowsByKey(LastReq.license_key) :
            row.revoked /\ row.machine_id = LastReq.machine_id =>
                /\ last.status = StatusOK
                /\ last.body = ValidateResponse(FALSE, TRUE, RowExpires(row), "revoked")

\* C2: revocation is terminal.  No step of any handler sets revoked back to
\* false, and every validate by the bound machine of a revoked record is
\* answered revoked, with expires_at in the past or in the future.
C2_RevocationTerminal == [][RevokedStays]_vars /\ []RevokedAnswered

\* A revoked record whose expires_at an update has moved into the future,
\* away from what the artifact says, and a validate that answers "revoked".
C2_Witness ==
    /\ ValidateServed
    /\ last.body.kind = "validate"
    /\ last.body.reason = "revoked"
    /\ \E row \in RowsByKey(LastReq.license_key), a \in issued :
        /\ a.license_key = row.license_key
        /\ row.revoked
        /\ RowExpires(row) # a.expires_at
        /\ RowExpires(row) >= last.at

\* The row with revoked and expires_at replaced.
RowWith(row, revoked, expires) ==
    [row EXCEPT !.revoked = revoked, !.expires_at = ExpiresValue(cfg, expires)]

\* C3: non-interference on machine mismatch.  The answer to a validate
\* request whose machine_id differs from the record's is the same fixed
\* response (valid=false, revoked=false, zero expires_at, reason "machine
\* mismatch") in every repository state that differs only in the record's
\* revoked flag and expires_at.
C3_MismatchRevealsNothing ==
    ValidateServed =>
        \A row \in RowsByKey(LastReq.license_key) :
            row.machine_id # LastReq.machine_id =>
                /\ last.status = StatusOK
                /\ last.body = MismatchBody
                /\ \A rv \in BOOLEAN, e \in Instants :
                    ValidateLookup(LastReq, last.env, {RowWith(row, rv, e)})
                        = writeJSON(last.status, last.body)

\* A mismatch answer given for a record that is revoked and not expired.
C3_Witness ==
    /\ ValidateServed
    /\ last.body = MismatchBody
    /\ \E row \in RowsByKey(LastReq.license_key) :
        /\ row.machine_id # LastReq.machine_id
        /\ row.revoked
        /\ RowExpires(row) >= last.at

\* The answer the contract gives for a row at instant t.
OutcomeFor(req, row, t) ==
    IF row.machine_id # req.machine_id THEN MismatchBody
    ELSE IF row.revoked THEN ValidateResponse(FALSE, TRUE, RowExpires(row), "revoked")
    ELSE IF t > RowExpires(row)
    THEN ValidateResponse(FALSE, FALSE, RowExpires(row), "expired")
    ELSE ValidateResponse(TRUE, FALSE, RowExpires(row), "")

\* C4: a validate request (both fields present, lookup answered) always
\* gets a 200 with one of five outcomes decided by the table, the request
\* and the clock: unknown license, machine mismatch, revoked, expired
\* (clock strictly after expires_at), valid.  valid=true exactly when the
\* record exists, the machine matches, it is not revoked and the clock is
\* not after expires_at.
C4_ValidateOutcomes ==
    ValidateServed =>
        LET rows == RowsByKey(LastReq.license_key)
        IN  /\ last.status = StatusOK
            /\ last.body.kind = "validate"
            /\ rows = {} =>
                last.body = ValidateResponse(FALSE, FALSE, ZeroTime, "unknown license")
            /\ \A row \in rows : last.body = OutcomeFor(LastReq, row, last.at)
            /\ last.body.valid <=>
                \E row \in rows :
                    /\ row.machine_id = LastReq.machine_id
                    /\ ~row.revoked
                    /\ last.at <= RowExpires(row)

\* A validate at the very instant of expires_at, answered valid.
C4_Witness ==
    /\ ValidateServed
    /\ last.body.kind = "validate"
    /\ last.body.valid
    /\ \E row \in RowsByKey(LastReq.license_key) : RowExpires(row) = last.at

\* A successful issue step: the artifact names a key, and the table gains a
\* row for it with revoked=false and last_seen_at null, bound to the
\* request's machine and expiry.
IssueCreates ==
    Handles("issue") /\ last'.status = StatusOK =>
        /\ last'.body.kind = "license"
        /\ last'.body.license_key # ""
        /\ \E row \in licenses' \ licenses :
            /\ row.license_key = last'.body.license_key
            /\ row.machine_id = StepReq.machine_id
            /\ RowExpires(row) = StepReq.expires_at
            /\ row.revoked = FALSE
            /\ row.last_seen_at = NULL

\* A validate with the key and the machine of an artifact: valid while
\* the record is unrevoked, its expires_at is the artifact's and has not
\* passed; "revoked" once it is revoked.
ArtifactValidates ==
    ValidateServed =>
        \A a \in issued :
            a.license_key = LastReq.license_key /\ a.machine_id = LastReq.machine_id =>
                LET rows == RowsByKey(a.license_key)
                IN  /\ rows # {}
                    /\ \A row \in rows :
                        /\ (~row.revoked /\ RowExpires(row) = a.expires_at
                                /\ last.at <= a.expires_at)
                            => /\ last.status = StatusOK
                               /\ last.body = ValidateResponse(TRUE, FALSE, a.expires_at, "")
                        /\ row.revoked
                            => /\ last.status = StatusOK
                               /\ last.body = ValidateResponse(FALSE, TRUE,
                                                               RowExpires(row), "revoked")

\* C5: issue-then-validate.  A successful Issue returns an artifact with a
\* non-empty license_key and leaves a record with revoked=false and
\* last_seen_at null; validate with the artifact's key and machine is then
\* answered valid=true, revoked=false until a revoke, an update of
\* expires_at or the expiry, and valid=false, revoked=true, reason
\* "revoked" after a revoke.
C5_IssueThenValidate == [][IssueCreates]_vars /\ []ArtifactValidates

\* An artifact's record, revoked by now, and the validate that says so
\* while the artifact has not expired.
C5_Witness ==
    /\ ValidateServed
    /\ last.body.kind = "validate"
    /\ last.body.revoked
    /\ \E a \in issued, row \in licenses :
        /\ a.license_key = LastReq.license_key
        /\ a.machine_id = LastReq.machine_id
        /\ row.license_key = a.license_key
        /\ row.revoked
        /\ row.last_seen_at = NULL
        /\ last.at <= a.expires_at

\* C6: Issue answers 400 to a request whose customer is empty, whose
\* machine_id is empty or whose expires_at is the zero timestamp, and
\* neither inserts a record nor returns a signed artifact.
C6_IssueRejectsMissing ==
    [][Handles("issue") /\ StepDecoded
            /\ (StepReq.customer = "" \/ StepReq.machine_id = ""
                    \/ StepReq.expires_at = ZeroTime)
        => /\ last'.status = StatusBadRequest
           /\ last'.body.kind = "text"
           /\ licenses' = licenses
           /\ issued' = issued]_vars

\* A request with customer and machine_id but the zero expires_at, refused.
C6_Witness ==
    /\ last.op = "issue"
    /\ LastDecoded
    /\ LastReq.customer # ""
    /\ LastReq.machine_id # ""
    /\ LastReq.expires_at = ZeroTime
    /\ last.status = StatusBadRequest

\* An issue step whose insert fails: a 500, no artifact, no row.
InsertFailureStops ==
    Handles("issue") /\ StepDecoded /\ ~IssueInputBad(StepReq)
            /\ licenses' = licenses
        => /\ last'.status = StatusInternalServerError
           /\ last'.body.kind = "text"
           /\ issued' = issued

\* Every artifact returned names a license_key the table holds.
ArtifactsHaveRecords ==
    \A a \in issued : \E row \in licenses : row.license_key = a.license_key

\* C7: Issue returns no signed artifact for a record that does not exist.
\* A request that passes the input check and whose insert adds no row is
\* answered 500 without an artifact, and every artifact ever returned names
\* a license_key present in the table.
C7_NoArtifactWithoutRecord == [][InsertFailureStops]_vars /\ []ArtifactsHaveRecords

\* An insert the repository failed, on an empty table, with a usable
\* signing key configured: a 500 and no artifact.
C7_Witness ==
    /\ last.op = "issue"
    /\ LastDecoded
    /\ ~IssueInputBad(LastReq)
    /\ last.env.dbErr
    /\ ~PrivateKey(cfg).err
    /\ last.status = StatusInternalServerError
    /\ licenses = {}
    /\ issued = {}

\* No two rows share a license_key.
KeysUnique ==
    \A r1, r2 \in licenses : r1.license_key = r2.license_key => r1 = r2

\* Every row keeps its license_key, machine_id and customer, and a row
\* that is new carries a license_key no row had.
KeysKept ==
    /\ \A row \in licenses :
        \E kept \in licenses' :
            /\ kept.id = row.id
            /\ kept.license_key = row.license_key
            /\ kept.machine_id = row.machine_id
            /\ kept.customer = row.customer
    /\ \A new \in licenses' :
        (\A row \in licenses : row.id # new.id) =>
            \A row \in licenses : row.license_key # new.license_key

\* C8: license_key is unique and immutable.  No two records share a
\* license_key, a record created by Issue has a key no existing record
\* uses, and no step changes the license_key, machine_id or customer of an
\* existing record.
C8_KeyUniqueImmutable == []KeysUnique /\ [][KeysKept]_vars

\* Two records side by side, one of them revoked and seen.
C8_Witness ==
    \E r1, r2 \in licenses :
        /\ r1.license_key # r2.license_key
        /\ r1.revoked
        /\ r1.last_seen_at # NULL
        /\ r1.updated_at > r1.created_at

\* C9: a Revoke the repository carries out answers 200 and sets revoked on
\* the record of the key when there is one, leaving the other records as
\* they are; answers 404 (neither 200 nor 500) and changes no record when
\* there is none; a Revoke with an empty license_key is answered 400.
C9_RevokeOutcomes ==
    [][Handles("revoke") /\ StepDecoded =>
        LET k == StepReq.license_key
        IN  /\ k = "" => last'.status = StatusBadRequest /\ licenses' = licenses
            /\ k # "" /\ ~last'.env.dbErr /\ RowsByKey(k) # {} =>
                /\ last'.status = StatusOK
                /\ last'.body = OkBody
                /\ \A row \in RowsByKey(k) :
                    \E kept \in licenses' : kept.id = row.id /\ kept.revoked
                /\ \A row \in licenses \ RowsByKey(k) : row \in licenses'
                /\ Cardinality(licenses') = Cardinality(licenses)
            /\ k # "" /\ ~last'.env.dbErr /\ RowsByKey(k) = {} =>
                /\ last'.status = StatusNotFound
                /\ licenses' = licenses]_vars

\* A revoke of a key no record has, while another record exists: 404.
C9_Witness ==
    /\ last.op = "revoke"
    /\ LastDecoded
    /\ LastReq.license_key # ""
    /\ last.status = StatusNotFound
    /\ licenses # {}
    /\ RowsByKey(LastReq.license_key) = {}

\* C10: a Heartbeat the repository carries out answers 200 and sets
\* last_seen_at to the clock for the record of the key, revoked or expired
\* or neither, and answers 404 exactly when no record has the key.
C10_HeartbeatNoAuthorization ==
    [][Handles("heartbeat") /\ StepDecoded /\ StepReq.license_key # ""
            /\ ~last'.env.dbErr =>
        LET k == StepReq.license_key
        IN  /\ RowsByKey(k) # {} =>
                /\ last'.status = StatusOK
                /\ last'.body = OkBody
                /\ \A row \in RowsByKey(k) :
                    \E kept \in licenses' :
                        /\ kept.id = row.id
                        /\ kept.last_seen_at = now
                        /\ kept.revoked = row.revoked
                        /\ kept.expires_at = row.expires_at
            /\ last'.status = StatusNotFound <=> RowsByKey(k) = {}]_vars

\* A heartbeat accepted for a record that is revoked and expired.
C10_Witness ==
    /\ last.op = "heartbeat"
    /\ last.status = StatusOK
    /\ \E row \in RowsByKey(LastReq.license_key) :
        /\ row.revoked
        /\ RowExpires(row) < last.at
        /\ row.last_seen_at = last.at

\* C11: an Update that names a license_key but carries neither expires_at
\* nor features is answered 400 and changes no record, updated_at included,
\* whether a record has the key or not.
C11_UpdateNeedsAField ==
    [][Handles("update") /\ StepDecoded /\ StepReq.license_key # ""
            /\ StepReq.expires_at = NilString /\ StepReq.features.isNil
        => /\ last'.status = StatusBadRequest
           /\ last'.body.kind = "text"
           /\ licenses' = licenses]_vars

\* An empty update refused for a key that has a record, at an instant when
\* writing updated_at would have shown.
C11_Witness ==
    /\ last.op = "update"
    /\ LastDecoded
    /\ LastReq.license_key # ""
    /\ LastReq.expires_at = NilString
    /\ LastReq.features.isNil
    /\ last.status = StatusBadRequest
    /\ \E row \in RowsByKey(LastReq.license_key) : row.updated_at < last.at

\* C12: a successful Update that carries a features map leaves, in the
\* record of the key, exactly the members of that map, and leaves
\* expires_at as it was unless the request carries expires_at too.
C12_FeaturesReplaced ==
    [][Handles("update") /\ StepDecoded /\ last'.status = StatusOK
            /\ ~StepReq.features.isNil
        => \A row \in RowsByKey(StepReq.license_key) :
            \E kept \in licenses' :
                /\ kept.id = row.id
                /\ kept.features.json = "object"
                /\ kept.features.members = StepReq.features.members
                /\ UnmarshalFeatures(kept.features) = StepReq.features
                /\ StepReq.expires_at = NilString => kept.expires_at = row.expires_at]_vars

\* A record issued with seats and tier, now holding the one member of the
\* update just answered.
C12_Witness ==
    /\ last.op = "update"
    /\ last.status = StatusOK
    /\ LastReq.features = MakeMap({<<"tier", "free">>})
    /\ \E row \in RowsByKey(LastReq.license_key), a \in issued :
        /\ a.license_key = row.license_key
        /\ <<"seats", "5">> \in a.features.members
        /\ row.features.members = {<<"tier", "free">>}

\* A successful update that carries expires_at writes it to the record of
\* the key and leaves the artifacts as they are; every other step leaves
\* the expires_at of every record as it is.
ExpiresFollowsUpdate ==
    LET writes == /\ Handles("update") /\ StepDecoded /\ last'.status = StatusOK
                  /\ StepReq.expires_at # NilString
    IN  /\ writes =>
            /\ \A row \in RowsByKey(StepReq.license_key) :
                \E kept \in licenses' :
                    /\ kept.id = row.id
                    /\ RowExpires(kept) = ParseRFC3339(StepReq.expires_at).utc
            /\ \A row \in licenses \ RowsByKey(StepReq.license_key) : row \in licenses'
        /\ ~writes =>
            \A row \in licenses :
                \E kept \in licenses' : kept.id = row.id /\ kept.expires_at = row.expires_at
        /\ Handles("update") => issued' = issued

\* Validate by the bound machine of an unrevoked record decides against
\* the expires_at the record holds, and surfaces it.
ValidateFollowsRecord ==
    ValidateServed =>
        \A row \in RowsByKey(LastReq.license_key) :
            row.machine_id = LastReq.machine_id /\ ~row.revoked =>
                /\ last.status = StatusOK
                /\ last.body.kind = "validate"
                /\ last.body.expires_at = RowExpires(row)
                /\ last.body.valid <=> last.at <= RowExpires(row)
                /\ last.body.reason = IF last.at <= RowExpires(row) THEN "" ELSE "expired"

\* C13: live validation follows the repository.  The expires_at of a
\* record is the one the last successful update wrote (or the one issued),
\* validate decides expiry against it and surfaces it, and an update
\* neither changes nor adds an artifact.
C13_ValidateFollowsRepository == [][ExpiresFollowsUpdate]_vars /\ []ValidateFollowsRecord

\* A license whose artifact has expired, valid again after an update.
C13_Witness ==
    /\ ValidateServed
    /\ last.body.kind = "validate"
    /\ last.body.valid
    /\ \E a \in issued :
        /\ a.license_key = LastReq.license_key
        /\ a.expires_at < last.at
        /\ last.body.expires_at > a.expires_at

\* The last request was a GET of the list and the query was answered.
ListServed == last.op = "list" /\ last.request.method = "GET" /\ ~last.env.dbErr

\* C14: the list holds every record exactly once, revoked and expired ones
\* included, with its id and license_key, in order of non-increasing
\* created_at.
C14_ListComplete ==
    ListServed =>
        /\ last.status = StatusOK
        /\ last.body.kind = "list"
        /\ LET listed == last.body.Licenses
               RowOf(i) == CHOOSE row \in licenses : row.id = listed[i].id
           IN  /\ DOMAIN listed = 1..Cardinality(licenses)
               /\ \A row \in licenses :
                    \E i \in DOMAIN listed :
                        /\ listed[i].id = row.id
                        /\ listed[i].license_key = row.license_key
                        /\ listed[i].revoked = row.revoked
                        /\ \A j \in DOMAIN listed : listed[j].id = row.id => j = i
               /\ \A i, j \in DOMAIN listed :
                    i < j => RowOf(i).created_at >= RowOf(j).created_at

\* A list of two records created at different instants, the newer first,
\* one of them revoked and both expired.
C14_Witness ==
    /\ ListServed
    /\ last.status = StatusOK
    /\ Cardinality(licenses) = 2
    /\ \E r1, r2 \in licenses :
        /\ r1.created_at > r2.created_at
        /\ last.body.Licenses[1].id = r1.id
        /\ last.body.Licenses[2].id = r2.id
        /\ r2.revoked
        /\ RowExpires(r1) < last.at
        /\ RowExpires(r2) < last.at

\* ------------------------------------------------------------ admin guard
\* The step serves a request at the admin guard.
GuardStep == now' = now

\* The Authorization header and the origin of the request of the step.
StepHeader == last'.request.authorization
StepKey == adminFailureKey(last'.request)

\* The guard turned the request of the step down / let it through.
StepRejected == last'.op = "admin"
StepAccepted == last'.op \in {"issue", "revoke", "update", "list"}

\* The last request was served at the admin guard / turned down by it.
GuardServed == last.op # "none"
GuardRejected == last.op = "admin"

\* The token is a right one for the configuration: it matches one of the
\* configured hashes when there are any, else it is the plaintext secret
\* and that is not empty.
TokenMatches(c, token) ==
    IF c.AdminAPIKeyHashes # <<>>
    THEN \E i \in DOMAIN c.AdminAPIKeyHashes : c.AdminAPIKeyHashes[i] = BcryptHash(token)
    ELSE c.AdminAPIKey # <<>> /\ token = c.AdminAPIKey

\* The header is seven bytes followed by a right token.
TailIsRightToken(c, ah) ==
    Len(ah) >= Len(BearerPrefix) /\ TokenMatches(c, SliceFrom(ah, Len(BearerPrefix)))

\* C15: a request whose Authorization header does not start with "Bearer "
\* (space included) is answered 401 by the guard and the next handler does
\* not run (no record and no artifact changes), also when the header is
\* seven other bytes followed by the right token; "Bearer " followed by the
\* right token is let through to the handler.
C15_BearerPrefixExact ==
    [][GuardStep =>
        /\ ~HasPrefix(StepHeader, BearerPrefix) =>
            /\ StepRejected
            /\ last'.status = StatusUnauthorized
            /\ licenses' = licenses
            /\ issued' = issued
        /\ (HasPrefix(StepHeader, BearerPrefix) /\ TailIsRightToken(cfg, StepHeader)) =>
            StepAccepted]_vars

\* "BearerX" and the right token has been turned down, where "Bearer " and
\* that token would have been let through.
C15_Witness ==
    /\ GuardRejected
    /\ last.status = StatusUnauthorized
    /\ last.request.authorization = BearerX(GoodToken)
    /\ TailIsRightToken(cfg, last.request.authorization)
    /\ ~AdminGuardRejects(cfg, Bearer(GoodToken))

\* C16: of the requests that carry "Bearer " and a token, the guard lets
\* through exactly those whose token matches a configured hash when hashes
\* are configured (the plaintext secret is then not consulted), and exactly
\* those whose token is the non-empty plaintext secret when none is.
C16_HashesBeforePlaintext ==
    (GuardServed /\ HasPrefix(last.request.authorization, BearerPrefix)) =>
        LET token == SliceFrom(last.request.authorization, Len(BearerPrefix))
        IN  /\ ~GuardRejected <=> TokenMatches(cfg, token)
            /\ AdminKeyOK(cfg, token) <=> TokenMatches(cfg, token)

\* Hashes are configured next to a plaintext secret, and the plaintext
\* secret itself has been turned down.
C16_Witness ==
    /\ cfg.AdminAPIKeyHashes # <<>>
    /\ cfg.AdminAPIKey = GoodToken
    /\ GuardRejected
    /\ last.request.authorization = Bearer(GoodToken)

\* C17: every rejection of the guard is the same response, status 401 with
\* the text "unauthorized": for a missing header, a header without the
\* prefix, a wrong token, a server with no secret, before and after the
\* failure threshold.
C17_RejectionsUniform ==
    GuardRejected =>
        /\ last.status = StatusUnauthorized
        /\ last.body = [kind |-> "text", text |-> "unauthorized"]

\* A request with no header at all has been turned down by a server with
\* no secret, after its origin passed the failure threshold.
C17_Witness ==
    /\ GuardRejected
    /\ cfg = NoSecretConfig
    /\ last.request.authorization = NoHeader
    /\ adminFailureKey(last.request) \in DOMAIN adminFailures
    /\ adminFailures[adminFailureKey(last.request)].count > adminFailureThreshold
    /\ last.body = [kind |-> "text", text |-> "unauthorized"]

\* The step is a failed authorization from an origin / a successful one.
FailureStep == GuardStep /\ StepRejected
SuccessStep == GuardStep /\ StepAccepted

\* The alert line the guard logs at the threshold for an origin.
AlertLine(o) == [count |-> adminFailureThreshold, remote |-> o]

\* A failure logs the alert line exactly when it is the 5th of its run,
\* and leaves the tracked count at the length of the run.
AlertAtFifth ==
    FailureStep =>
        /\ adminLog' = IF runs'[StepKey].fails = adminFailureThreshold
                       THEN {AlertLine(StepKey)} ELSE {}
        /\ adminFailures'[StepKey].count = runs'[StepKey].fails

\* Every origin with a run is tracked with the length of the run as its
\* count, and the run has alerted at its 5th failure and at no other.
RunsCounted ==
    \A o \in DOMAIN runs :
        runs[o].fails > 0 =>
            /\ o \in DOMAIN adminFailures
            /\ adminFailures[o].count = runs[o].fails
            /\ runs[o].alertsAt = IF runs[o].fails >= adminFailureThreshold
                                  THEN {adminFailureThreshold} ELSE {}

\* C18: in a run of failed admin authorizations of one origin, with no
\* success in between and no gap longer than the window, the tracked count
\* is the number of failures so far (one more per failure), failures 1 to 4
\* log no alert, the 5th logs exactly one, and the 6th and later log none.
C18_OneAlertPerWindow == [][AlertAtFifth]_vars /\ []RunsCounted

\* The 6th failure of a run that began with no tracked state has been
\* answered: the count is 6, the one alert was at the 5th, none is logged now.
C18_Witness ==
    \E o \in DOMAIN runs :
        /\ GuardRejected
        /\ adminFailureKey(last.request) = o
        /\ runs[o].fails = adminFailureThreshold + 1
        /\ ~runs[o].over
        /\ runs[o].alertsAt = {adminFailureThreshold}
        /\ adminFailures[o].count = adminFailureThreshold + 1
        /\ adminLog = {}

\* The tracked entry of the origin of the step is older than the window.
StepEntryStale ==
    /\ StepKey \in DOMAIN adminFailures
    /\ now - adminFailures[StepKey].lastFailure > adminFailureWindow
StepEntryLive ==
    /\ StepKey \in DOMAIN adminFailures
    /\ now - adminFailures[StepKey].lastFailure <= adminFailureWindow

\* A failure over a stale entry starts it again; one over a live entry
\* counts on; the failure that brings the count to the threshold alerts.
FailureOverEntry ==
    FailureStep =>
        /\ StepEntryStale =>
            /\ adminFailures'[StepKey].count = 1
            /\ ~adminFailures'[StepKey].alerted
            /\ adminFailures'[StepKey].lastFailure = now
            /\ adminLog' = {}
        /\ StepEntryLive =>
            adminFailures'[StepKey].count = adminFailures[StepKey].count + 1
        /\ adminFailures'[StepKey].count = adminFailureThreshold =>
            /\ adminLog' = {AlertLine(StepKey)}
            /\ adminFailures'[StepKey].alerted

\* An entry has alerted exactly when it has counted to the threshold.
AlertedAtThreshold ==
    \A o \in DOMAIN adminFailures :
        adminFailures[o].alerted <=> adminFailures[o].count >= adminFailureThreshold

\* C19: a failure of an origin whose tracked entry is older than the window
\* (more than 10 minutes since its last failure) leaves the entry with
\* count 1 and the alerted flag cleared, and logs no alert; an entry that
\* has counted to the threshold has alerted, so the 4 failures that follow
\* inside the window end in a new alert.
C19_WindowReset == [][FailureOverEntry]_vars /\ []AlertedAtThreshold

\* An origin whose run had alerted and gone stale has failed 5 times again,
\* and the 5th of them has just logged a new alert.
C19_Witness ==
    \E o \in DOMAIN runs :
        /\ GuardRejected
        /\ adminFailureKey(last.request) = o
        /\ runs[o].over
        /\ runs[o].fails = adminFailureThreshold
        /\ adminFailures[o].count = adminFailureThreshold
        /\ adminFailures[o].alerted
        /\ adminLog = {AlertLine(o)}

\* A success deletes the entry of its origin and no other; a failure of an
\* origin with no entry creates one with count 1 and touches no other.
SuccessDeletes ==
    /\ SuccessStep =>
        /\ DOMAIN adminFailures' = DOMAIN adminFailures \ {StepKey}
        /\ \A o \in DOMAIN adminFailures' : adminFailures'[o] = adminFailures[o]
        /\ adminLog' = {}
    /\ (FailureStep /\ StepKey \notin DOMAIN adminFailures) =>
        /\ adminFailures'[StepKey].count = 1
        /\ ~adminFailures'[StepKey].alerted
        /\ adminLog' = {}
        /\ \A o \in DOMAIN adminFailures : adminFailures'[o] = adminFailures[o]

\* An origin has an entry exactly when it has failed since its last success.
EntryIffFailed ==
    /\ DOMAIN adminFailures \subseteq DOMAIN runs
    /\ \A o \in DOMAIN runs : o \in DOMAIN adminFailures <=> runs[o].fails > 0

\* C20: a successful admin authorization of an origin deletes the tracked
\* entry of that origin and leaves every other entry as it was, so the next
\* failure of the origin counts 1 with the alerted flag clear; in every
\* state an origin has an entry exactly when it has failed since its last
\* success.
C20_SuccessClears == [][SuccessDeletes]_vars /\ []EntryIffFailed

\* A success of an origin whose run had alerted has left it without an
\* entry, while another origin keeps its alerted entry.
C20_Witness ==
    \E o, other \in DOMAIN runs :
        /\ GuardServed /\ ~GuardRejected
        /\ adminFailureKey(last.request) = o
        /\ runs[o].cleared
        /\ o \notin DOMAIN adminFailures
        /\ other \in DOMAIN adminFailures
        /\ adminFailures[other].alerted

\* ----------------------------------------------------------- rate limiter
\* The step is a call of allow; its category, key and limiter before and
\* after.
AllowStep == ticks' = ticks /\ limiters' # limiters
StepLimiter == limiters[verdict'.category]
StepLimiterAfter == limiters'[verdict'.category]

\* Every bucket holds between nothing and the burst.
BucketsBounded ==
    \A c \in DOMAIN limiters :
        \A k \in DOMAIN limiters[c].buckets :
            /\ limiters[c].buckets[k].tokens >= 0
            /\ limiters[c].buckets[k].tokens <= limiters[c].burst

\* With no time passing, a bucket permits at most `burst` calls.
StreaksBounded ==
    \A b \in DOMAIN streak :
        streak[b].permits * OneToken <= limiters[b[1]].burst

\* C21: in every reachable state of a limiter, whatever the calls of allow
\* and the idle times between them, every bucket's token count is at least
\* 0 and at most burst, and a bucket permits at most `burst` calls in a row
\* while no time passes, however long it was idle before.
C21_BucketBounds == BucketsBounded /\ StreaksBounded

\* A bucket that had been idle long enough to refill past the burst has
\* permitted exactly `burst` calls and denied the next.
C21_Witness ==
    /\ verdict.category \in DOMAIN limiters
    /\ <<verdict.category, verdict.key>> \in DOMAIN streak
    /\ ~verdict.ok
    /\ LET l == limiters[verdict.category]
           run == streak[<<verdict.category, verdict.key>>]
       IN  /\ run.permits * OneToken = l.burst
           /\ run.idle > 0
           /\ run.idle * l.rps > l.burst
           /\ l.buckets[verdict.key].tokens < OneToken

\* The bucket of the key of the step before the call: the one it has, or a
\* full one when it has none.
StepBucket(l) ==
    IF verdict'.key \in DOMAIN l.buckets THEN l.buckets[verdict'.key]
    ELSE [lastRefill |-> ticks, tokens |-> StepLimiter.burst]

\* The count of bucket b of limiter l refilled at the time of the step.
StepRefilled(l, b) ==
    LET sum == b.tokens + (ticks - b.lastRefill) * l.rps
    IN  IF sum > l.burst THEN l.burst ELSE sum

\* The call of the step leaves the bucket of its key refilled from its
\* bucket in `from`, a token less when the refilled count is a token or
\* more, and permits exactly then.
StepServes(from) ==
    LET c == StepRefilled(StepLimiter, StepBucket(from))
        after == StepLimiterAfter.buckets[verdict'.key]
    IN  /\ after.lastRefill = ticks
        /\ verdict'.ok <=> c >= OneToken
        /\ after.tokens = IF c >= OneToken THEN c - OneToken ELSE c

\* The call of the step leaves the bucket of every other key as it was.
OthersKept ==
    \A k \in DOMAIN StepLimiter.buckets \ {verdict'.key} :
        /\ k \in DOMAIN StepLimiterAfter.buckets
        /\ StepLimiterAfter.buckets[k] = StepLimiter.buckets[k]

\* The call of the step leaves the bucket of every other key as it was, or
\* removes it in a sweep that was due, the bucket being idle for more than
\* the TTL.
OthersKeptOrSwept ==
    \A k \in DOMAIN StepLimiter.buckets \ {verdict'.key} :
        \/ /\ k \in DOMAIN StepLimiterAfter.buckets
           /\ StepLimiterAfter.buckets[k] = StepLimiter.buckets[k]
        \/ /\ k \notin DOMAIN StepLimiterAfter.buckets
           /\ ticks - StepLimiter.lastSweep > StepLimiter.ttl
           /\ ticks - StepLimiter.buckets[k].lastRefill > StepLimiter.ttl

\* The buckets of the limiter of the step once those idle for more than the
\* TTL are taken out, when a sweep is due.
StepSwept ==
    IF ticks - StepLimiter.lastSweep > StepLimiter.ttl
    THEN [buckets |->
            [k \in {x \in DOMAIN StepLimiter.buckets :
                        ticks - StepLimiter.buckets[x].lastRefill <= StepLimiter.ttl}
                |-> StepLimiter.buckets[k]]]
    ELSE [buckets |-> StepLimiter.buckets]

AllowAsClaimed == AllowStep => (StepServes(StepLimiter) /\ OthersKept)
AllowAfterSweep == AllowStep => (StepServes(StepSwept) /\ OthersKeptOrSwept)

\* C22 as claimed: allow(key) refills the bucket the key has (a full one
\* if it has none) to min(burst, tokens + elapsed*rate) with last-refill
\* time now, permits exactly when the refilled count is at least 1, takes 1
\* token on permit and none on deny, and changes the bucket of no other key.
C22_Claimed == [][AllowAsClaimed]_vars

\* C22, amended: the same of the buckets that are left once the sweep of
\* the call, when one is due, has removed the buckets idle for more than
\* the TTL: a key whose bucket was swept starts from a full bucket like a
\* key seen for the first time, and a bucket of another key is unchanged or
\* removed by that sweep.
C22_AllowRefillsThenConsumes == [][AllowAfterSweep]_vars

\* A call has been denied on a bucket holding part of a token after its
\* refill, and another key has its bucket.
C22_Witness ==
    /\ verdict.category \in DOMAIN limiters
    /\ ~verdict.ok
    /\ verdict.elapsed > 0
    /\ LET l == limiters[verdict.category]
       IN  /\ l.buckets[verdict.key].tokens > 0
           /\ l.buckets[verdict.key].tokens < OneToken
           /\ l.buckets[verdict.key].lastRefill = ticks
           /\ \E k \in DOMAIN l.buckets : k # verdict.key

\* The limiter of the step before the call was due for a sweep.
SweepDue == ticks - StepLimiter.lastSweep > StepLimiter.ttl

\* A call of allow sweeps exactly when more than the TTL has passed since
\* the last sweep, and then removes the buckets last accessed more than the
\* TTL ago and no other; time passing alone sweeps nothing.
SweepsWhenDue ==
    /\ (AllowStep /\ SweepDue) =>
        /\ StepLimiterAfter.lastSweep = ticks
        /\ DOMAIN StepLimiterAfter.buckets =
             {k \in DOMAIN StepLimiter.buckets :
                 ticks - StepLimiter.buckets[k].lastRefill <= StepLimiter.ttl}
             \cup {verdict'.key}
    /\ (AllowStep /\ ~SweepDue) =>
        /\ StepLimiterAfter.lastSweep = StepLimiter.lastSweep
        /\ DOMAIN StepLimiterAfter.buckets = DOMAIN StepLimiter.buckets \cup {verdict'.key}
    /\ ticks' # ticks => limiters' = limiters

\* C25: a sweep runs inside allow only when more than the TTL has passed
\* since the previous sweep (or the creation of the limiter), so at most
\* once in a TTL; it removes exactly the buckets last accessed more than
\* the TTL before it; a bucket accessed within the last TTL is never removed.
C25_IdleEviction == [][SweepsWhenDue]_vars

\* A sweep has removed the idle bucket of another key and has kept the
\* bucket of the caller, accessed exactly one TTL before.
C25_Witness ==
    /\ verdict.category \in DOMAIN limiters
    /\ LET l == limiters[verdict.category]
       IN  /\ l.lastSweep = ticks
           /\ \E k \in verdict.evicted : k # verdict.key
           /\ verdict.key \notin verdict.evicted
           /\ verdict.elapsed = l.ttl

\* ---------------------------------------------------------------------
\* Rate-limit keys
\* ---------------------------------------------------------------------

\* The credential of a header the guard reads one from.
Credential(ah) == SliceFrom(ah, Len(BearerPrefix))

\* The client origin: the first X-Forwarded-For hop if the header is
\* present, else the host of the remote address; "unknown" names the
\* empty origin.
ClientOrigin(r) ==
    LET o == IF r.xff # <<>> THEN r.xff[1] ELSE r.remote
    IN  IF o = "" THEN "unknown" ELSE o

KeyedAsClaimed(t) ==
    IF t.accepted
    THEN t.key = <<"admin:", Credential(t.request.authorization)>>
    ELSE t.key = <<"ip:", ClientOrigin(t.request)>>

KeysAsClaimed ==
    trial.kind = "key" =>
        /\ KeyedAsClaimed(trial.left)
        /\ KeyedAsClaimed(trial.right)
        /\ (trial.left.accepted /\ trial.right.accepted) =>
            (trial.left.key = trial.right.key
                <=> Credential(trial.left.request.authorization)
                        = Credential(trial.right.request.authorization))
        /\ (trial.left.accepted /\ ~trial.right.accepted) =>
            trial.left.key # trial.right.key

ServerStep == vars' # vars

\* The request of the step and its route.
StepRequest == last'.request
StepPath == last'.request.path

AdminPaths == {"issue", "revoke", "update", "list"}

\* The category the specification gives to a route.
ClaimedCategory(path) ==
    IF path \in {"validate", "heartbeat"} THEN "fast"
    ELSE IF path \in AdminPaths THEN "admin"
    ELSE "deflt"

RoutedAsClaimed ==
    ServerStep =>
        /\ verdict'.category = ClaimedCategory(StepPath)
        /\ \A c \in DOMAIN limiters \ {verdict'.category} : limiters'[c] = limiters[c]

\* C23: validate and heartbeat are admitted by the fast limiter; issue,
\* revoke, update and list by the admin limiter; every other request by the
\* default limiter; a call in one category changes no bucket of another.
C23_CategoryRouting == [][RoutedAsClaimed]_vars

\* The limiter turned the request of the step down.
StepDenied == ~verdict'.ok

\* The guard would turn the request of the step down.
StepUnauthorized == AdminGuardRejects(cfg, StepRequest.authorization)

LimiterFirst ==
    ServerStep =>
        /\ verdict'.key = rateKey(cfg, StepRequest)
        /\ StepDenied =>
            /\ last'.op = "ratelimit"
            /\ last'.status = StatusTooManyRequests
            /\ UNCHANGED <<licenses, issued, guardVars>>
        /\ ~StepDenied => last'.op # "ratelimit"

GuardSecond ==
    (ServerStep /\ StepPath \in AdminPaths) =>
        /\ (~StepDenied /\ StepUnauthorized) =>
            /\ last'.op = "admin"
            /\ adminFailures' # adminFailures
            /\ UNCHANGED <<licenses, issued>>
        /\ (last'.op = StepPath \/ licenses' # licenses \/ issued' # issued) =>
            /\ ~StepDenied
            /\ ~StepUnauthorized
            /\ StepKey \notin DOMAIN adminFailures'

OpenRoutes ==
    (ServerStep /\ StepPath \notin AdminPaths) =>
        /\ UNCHANGED guardVars
        /\ ~StepDenied => last'.op = StepPath

MiddlewareOrder == LimiterFirst /\ GuardSecond /\ OpenRoutes

\* C27: every request passes the rate limiter first, then, on the issue,
\* revoke, update and list routes, the admin guard, then the operation. An
\* admin operation runs only if the limiter admitted the request and the
\* guard accepted it; a request the limiter denies is answered 429 and
\* leaves the failure tracker as it was, recording nothing and resetting
\* nothing.
C27_MiddlewareOrder == [][MiddlewareOrder]_vars

\* The limiter has denied an issue request that carries the right token,
\* from an origin with a recorded failure, which is still recorded, after a
\* license was issued.
C27_Witness ==
    /\ last.op = "ratelimit"
    /\ last.request.path = "issue"
    /\ ~AdminGuardRejects(cfg, last.request.authorization)
    /\ adminFailureKey(last.request) \in DOMAIN adminFailures
    /\ licenses # {}

\* ---------------------------------------------------------------------
\* Concurrent mutations of one license
\* ---------------------------------------------------------------------

\* The callers whose statement has run.
Executed == {s \in DOMAIN inflight : inflight[s].pc \in {"answer", "done"}}

\* The orders in which the statements of a set of callers can be put.
Orders(S) ==
    {f \in [1..Cardinality(S) -> S] : \A i, j \in 1..Cardinality(S) : f[i] = f[j] => i = j}

\* The table after the statements of the callers of order, one after the
\* other, on table.
RECURSIVE Serial(_, _)
Serial(order, table) ==
    IF order = <<>> THEN table
    ELSE LET c == inflight[Head(order)]
         IN  Serial(Tail(order),
                    StatementOn(table, table, c.op, c.request.body.decoded).table)

Serializable == \E order \in Orders(Executed) : Serial(order, StartTable) = licenses

\* The callers of an operation on a key whose statement has run.
ExecutedOn(op, k) ==
    {s \in Executed : inflight[s].op = op
                        /\ inflight[s].request.body.decoded.license_key = k}

NothingLost ==
    \A row \in licenses :
        /\ row.revoked <=> ExecutedOn("revoke", row.license_key) # {}
        /\ row.last_seen_at # NULL <=> ExecutedOn("heartbeat", row.license_key) # {}
        /\ \E start \in StartTable :
            /\ start.license_key = row.license_key
            /\ row.expires_at \in
                 IF ExecutedOn("update", row.license_key) = {}
                 THEN {start.expires_at}
                 ELSE {UpdateRow(inflight[s].request.body.decoded, start).expires_at :
                         s \in ExecutedOn("update", row.license_key)}
            /\ row.updated_at = IF \E s \in Executed :
                                      inflight[s].request.body.decoded.license_key
                                          = row.license_key
                                THEN now ELSE start.updated_at

\* The keys of the table: no operation of the callers adds or removes one.
KeysOf(table) == {row.license_key : row \in table}

FoundWhenThere ==
    /\ KeysOf(licenses) = KeysOf(StartTable)
    /\ \A s \in Executed :
         inflight[s].rows =
             IF inflight[s].request.body.decoded.license_key \in KeysOf(StartTable)
             THEN 1 ELSE 0
    /\ last.op \in {"revoke", "heartbeat", "update"} =>
         last.status =
             IF last.request.body.decoded.license_key \in KeysOf(StartTable)
             THEN StatusOK ELSE StatusNotFound

\* C26: for every interleaving of concurrent revoke, update and heartbeat
\* requests, each one atomic statement, the table equals the result of the
\* statements in some sequential order, no field one request wrote is lost
\* to another (revoked if a revoke ran, last_seen_at set if a heartbeat
\* ran), and each request reports found exactly when the row exists.
C26_ConcurrentMutations == Serializable /\ NothingLost /\ FoundWhenThere

\* A revoke, a heartbeat and an update of the same license have all run
\* while all three were in flight, and one was answered.
C26_Witness ==
    /\ \A op \in {"revoke", "heartbeat", "update"} : ExecutedOn(op, "k1") # {}
    /\ \E row \in licenses :
        row.revoked /\ row.last_seen_at # NULL /\ row.updated_at = now
    /\ last.op = "revoke" /\ last.status = StatusOK

\* ---------------------------------------------------------------------
\* Signatures
\* ---------------------------------------------------------------------

\* A verification under the public key of the signer.
OwnKeyTrial == trial.kind = "verified" /\ trial.pub = PublicOf(trial.signer)

RoundTrip ==
    (OwnKeyTrial /\ trial.verified = trial.claims /\ trial.presented = trial.produced)
        => trial.ok

OtherClaimsFail ==
    (OwnKeyTrial /\ trial.verified # trial.claims /\ trial.presented = trial.produced)
        => ~trial.ok

OtherSignaturesFail ==
    (OwnKeyTrial /\ trial.verified = trial.claims /\ trial.presented # trial.produced)
        => ~trial.ok

\* C28: VerifyJSON(pub, c, SignJSON(priv, c)) is true for every key pair and
\* claim map; for every claim map that differs from c in a key or a value,
\* and for every signature string that differs from the produced one,
\* verification does not return true.
C28_SignVerifyRoundTrip == RoundTrip /\ OtherClaimsFail /\ OtherSignaturesFail

\* ---------------------------------------------------------------------
\* The request-body limit
\* ---------------------------------------------------------------------

\* The body of the request of the step.
StepBody == last'.request.body

\* The repository was not written in the step.
NoWrite == licenses' = licenses /\ issued' = issued

OversizedRejected ==
    StepBody.length > maxJSONBody =>
        /\ last'.status = StatusRequestEntityTooLarge
        /\ NoWrite

NotOneValueRejected ==
    (StepBody.length <= maxJSONBody /\ ~(StepBody.first = "value" /\ ~StepBody.more)) =>
        /\ last'.status = StatusBadRequest
        /\ last'.body = [kind |-> "text", text |-> "bad json"]
        /\ NoWrite

BodyLimitKept == vars' # vars => OversizedRejected /\ NotOneValueRejected

\* C29: decodeJSON rejects every body larger than 64 KiB with status 413 and
\* returns false, so the handler performs no repository operation; a body
\* within the limit that is not exactly one JSON value is rejected as bad
\* JSON.
C29_BodyLimit == [][BodyLimitKept]_vars

\* ---------------------------------------------------------------------
\* Operational errors
\* ---------------------------------------------------------------------

GenericFailure == HttpError("internal server error", StatusInternalServerError)

\* The response of the last request is the generic failure.
AnsweredGeneric == last.status = GenericFailure.status /\ last.body = GenericFailure.body

\* The last request met a fault of the repository or of the signer, or
\* was an issue that got as far as loading a key that does not load.
MetFault ==
    \/ last.env.dbErr
    \/ last.env.signErr
    \/ /\ last.op = "issue"
       /\ IssueReachesInsert(last.request)
       /\ ~last.env.dbErr
       /\ PrivateKey(cfg).err

FaultsAnsweredAlike ==
    /\ MetFault => AnsweredGeneric
    /\ last.status >= StatusInternalServerError => AnsweredGeneric

\* C30: for every repository fault, key-loading fault or signing fault in
\* issue, revoke, validate, heartbeat, update or list, the caller gets the
\* same generic failure, the same status and body whatever the error was.
C30_OperationalErrorsGeneric == FaultsAnsweredAlike

\* The signer failed in an issue and the caller got the generic failure.
C30_Witness ==
    /\ last.op = "issue"
    /\ last.env.signErr
    /\ ~PrivateKey(cfg).err
    /\ AnsweredGeneric

\* ---------------------------------------------------------------------
\* Issue across persistence and signing
\* ---------------------------------------------------------------------

\* The license keys of the artifacts returned so far.
ReturnedKeys == {a.license_key : a \in issued}

\* An issue step whose request passes the input check and whose insert
\* adds a row, with a private key that does not load or a signer that
\* fails.
SignFailsAfterInsert ==
    /\ Handles("issue") /\ StepDecoded /\ ~IssueInputBad(StepReq)
    /\ ~last'.env.dbErr
    /\ licenses' # licenses
    /\ PrivateKey(cfg).err \/ last'.env.signErr

SignFailureKeepsRecord ==
    SignFailsAfterInsert =>
        /\ last'.status = StatusInternalServerError
        /\ last'.body = [kind |-> "text", text |-> "internal server error"]
        /\ issued' = issued
        /\ \E new \in licenses' :
            /\ licenses' = licenses \cup {new}
            /\ new \notin licenses
            /\ new.license_key \notin ReturnedKeys
            /\ ~new.revoked

\* An issue that passed the input check, met no repository fault and no
\* taken id or key, always leaves its row, whatever the signer does.
InsertedStays ==
    (Handles("issue") /\ StepDecoded /\ ~IssueInputBad(StepReq) /\ ~last'.env.dbErr
        /\ (PrivateKey(cfg).err \/ last'.env.signErr)
        /\ last'.status = StatusInternalServerError
        /\ licenses = {})
        => licenses' # licenses

\* No step removes a record.
RecordsStay == \A row \in licenses : \E kept \in licenses' : kept.id = row.id

\* C38: when the insert succeeds but loading the private key or signing
\* fails, Issue answers with an operational error and no artifact, and the
\* inserted record stays in the repository; such a record, whose
\* license_key no caller was given, can be listed and revoked.
C38_IssueNotAtomic ==
    [][SignFailureKeepsRecord]_vars /\ [][InsertedStays]_vars /\ [][RecordsStay]_vars

\* A record whose license_key was never returned has been revoked.
C38_Witness ==
    /\ last.op = "revoke"
    /\ last.status = StatusOK
    /\ \E row \in licenses :
        /\ row.license_key = last.request.body.decoded.license_key
        /\ row.license_key \notin ReturnedKeys
        /\ row.revoked

\* ---------------------------------------------------------------------
\* Frames
\* ---------------------------------------------------------------------

\* A record but for the two fields a heartbeat writes.
BesidesSeen(row) == [row EXCEPT !.last_seen_at = NULL, !.updated_at = ZeroTime]

ValidateFrame == Handles("validate") => licenses' = licenses

HeartbeatFrame ==
    Handles("heartbeat") =>
        /\ {BesidesSeen(row) : row \in licenses'} = {BesidesSeen(row) : row \in licenses}
        /\ Cardinality(licenses') = Cardinality(licenses)
        /\ \A row \in licenses :
            row.license_key # last'.request.body.decoded.license_key => row \in licenses'
        /\ issued' = issued

\* C39: validate changes no field of any record, last_seen_at included;
\* heartbeat changes only last_seen_at and updated_at of the addressed
\* record; neither changes revoked, expires_at, machine_id, features,
\* customer or license_key of any record, nor creates or deletes one.
C39_NonAdminFrame == [][ValidateFrame]_vars /\ [][HeartbeatFrame]_vars

\* A validate answered for a record that was never seen, beside a revoked
\* record a heartbeat has touched.
C39_Witness ==
    /\ last.op = "validate"
    /\ last.status = StatusOK
    /\ \E row \in licenses :
        /\ row.license_key = last.request.body.decoded.license_key
        /\ row.last_seen_at = NULL
    /\ \E row \in licenses : row.revoked /\ row.last_seen_at # NULL

\* The operations that decode a JSON body.
BodyOps == {"issue", "revoke", "update", "heartbeat", "validate"}

\* Why the request of the step is turned down before the repository: the
\* method, the body, a missing field, an expires_at that does not parse.
StepWrongMethod == last'.request.method # "POST"
StepBadBody == ~StepWrongMethod /\ ~decodeJSON(last'.request.body).ok
StepMissingField ==
    /\ StepDecoded
    /\ \/ last'.op = "issue" /\ IssueInputBad(StepReq)
       \/ last'.op \in {"revoke", "heartbeat", "update"} /\ StepReq.license_key = ""
       \/ last'.op = "validate" /\ (StepReq.license_key = "" \/ StepReq.machine_id = "")
       \/ last'.op = "update" /\ UpdateEmpty(StepReq)
StepBadExpires ==
    /\ StepDecoded
    /\ last'.op = "update"
    /\ UpdateHasExpires(StepReq)
    /\ ParseRFC3339(StepReq.expires_at).err

StepTurnedDown == StepWrongMethod \/ StepBadBody \/ StepMissingField \/ StepBadExpires

RejectionStatuses ==
    {StatusMethodNotAllowed, StatusBadRequest, StatusRequestEntityTooLarge}

RejectedChangesNothing ==
    (now' = now /\ last'.op \in BodyOps) =>
        /\ StepTurnedDown =>
            /\ last'.status \in RejectionStatuses
            /\ licenses' = licenses
            /\ issued' = issued
        /\ last'.status \in RejectionStatuses \cup {StatusNotFound} =>
            /\ licenses' = licenses
            /\ issued' = issued
        /\ last'.status \in RejectionStatuses => StepTurnedDown

\* C40: a request to issue, revoke, update, heartbeat or validate that is
\* rejected for a wrong method, malformed or oversized JSON, a missing
\* field or an expires_at that does not parse changes no license record,
\* and neither does a revoke, update or heartbeat answered not-found.
C40_RejectedLeavesRepository == [][RejectedChangesNothing]_vars

\* An update with an expires_at that does not parse, turned down while the
\* record it names exists.
C40_Witness ==
    /\ last.op = "update"
    /\ last.status = StatusBadRequest
    /\ LastDecoded
    /\ ParseRFC3339(LastReq.expires_at).err
    /\ \E row \in licenses : row.license_key = LastReq.license_key

\* ---------------------------------------------------------------------------
\* C31: an alert is raised only for failures concentrated in one observation
\* window: whenever an alert is logged for an origin, the failures counted
\* toward it all occurred within the window, the first of them at most
\* adminFailureWindow before the one that alerts.
AlertedOrigins == {a.remote : a \in adminLog}

C31_AlertWithinWindow ==
    \A o \in AlertedOrigins :
        runs[o].latest - runs[o].first <= adminFailureWindow

\* ---------------------------------------------------------------------------
\* C32: a denied call of allow reports the wait (1 - c) / rate, c < 1 being
\* the refilled count of the bucket; when no other call on the key comes in
\* between, a call on it at any time from the end of that wait on is
\* permitted.
\*
\* A wait of num units at den units a tick is over d ticks after the denial
\* when d * den >= num.
WaitOver(denial, t) == (t - denial.at) * denial.wait.den >= denial.wait.num

\* The bucket of a denial that stands, while the limiter holds it, is as the
\* denied call left it, and the wait is the part of a token it lacks over
\* the rate.
WaitAsReported(b) ==
    LET l == limiters[b[1]]
    IN  b[2] \in DOMAIN l.buckets =>
            /\ l.buckets[b[2]].lastRefill = denials[b].at
            /\ l.buckets[b[2]].tokens < OneToken
            /\ denials[b].wait = [den |-> l.rps, num |-> OneToken - l.buckets[b[2]].tokens]
WaitsAsReported == \A b \in DOMAIN denials : WaitAsReported(b)

\* A call on a bucket whose denial stands and whose wait is over is
\* permitted.
PermittedAfterWait ==
    LET b == <<verdict'.category, verdict'.key>>
    IN  (ticks' = ticks /\ b \in DOMAIN denials /\ WaitOver(denials[b], ticks))
            => verdict'.ok

RetryInstant(denial) == denial.at + RetryAfterSeconds(denial.wait) * TicksPerSecond

C33_RetryAfterIsEnough ==
    \A b \in DOMAIN denials :
        ticks = RetryInstant(denials[b]) => allow(limiters[b[1]], b[2], ticks).ok

\* ---------------------------------------------------------------------------
\* C37: each configured limiter (fast 5/s burst 10, admin 1/s burst 3,
\* default 2/s burst 5, TTL ten minutes, so that rate * TTL >= burst)
\* returns from every call of allow the decision, the remaining count and
\* the wait that a limiter with the same parameters that never evicts
\* returns, whatever the calls and their times.
ConfiguredAsClaimed ==
    /\ NewLimiters(0) = [admin |-> newLimiter(1, 3, TenMinutes, 0),
                         deflt |-> newLimiter(2, 5, TenMinutes, 0),
                         fast |-> newLimiter(5, 10, TenMinutes, 0)]
    /\ \A c \in DOMAIN limiters : limiters[c].rps * limiters[c].ttl >= limiters[c].burst

\* A call on the limiter returns what the same call on the keeping limiter
\* returns.
ReturnsAsKeeping ==
    ticks' = ticks =>
        LET kept == allowKeeping(limiters["kept"], verdict'.key, ticks)
        IN  /\ verdict'.ok = kept.ok
            /\ verdict'.remaining = kept.remaining
            /\ verdict'.retryAfter = kept.retryAfter
            /\ limiters'["kept"] = kept.limiter

C37_EvictionUnobservable == ConfiguredAsClaimed /\ [][ReturnsAsKeeping]_vars

\* The last call swept the bucket of its own key, which the keeping limiter
\* still holds from before, and it was made as soon as the bucket could
\* be swept.
C37_Witness ==
    /\ verdict.category = "unit"
    /\ verdict.key \in verdict.evicted
    /\ limiters["kept"].buckets[verdict.key].lastRefill = ticks
    /\ ticks > TenMinutes
    /\ \E other \in DOMAIN limiters["kept"].buckets \ DOMAIN limiters["unit"].buckets :
            ticks - limiters["kept"].buckets[other].lastRefill = TenMinutes + 1

\* ---------------------------------------------------------------------------
\* C34: for every interleaving of concurrent calls of allow on one limiter
\* the calls behave as if made one at a time in some order; with a bucket
\* of k whole tokens and no time passing at most k of the calls on its key
\* are permitted, no token is consumed twice and no bucket is made twice
\* for one key.
\*
\* The callers whose call has written.
Written == {s \in DOMAIN inflight : inflight[s].pc \in {"unlock", "done"}}

\* The limiter as newLimiter left it.
StartLimiter ==
    LET l == limiters["unit"]
    IN  newLimiter(l.rps, l.burst \div OneToken, l.ttl, 0)

\* The calls of order, made one after the other on limiter l, return what
\* the callers got and leave the limiter as it is.
RECURSIVE OneAtATime(_, _)
OneAtATime(order, l) ==
    IF order = <<>> THEN l = limiters["unit"]
    ELSE LET c == inflight[Head(order)]
         IN  /\ c.result = AllowResult(l, c.key, c.at)
             /\ OneAtATime(Tail(order), allow(l, c.key, c.at).limiter)

AllowsSerializable == \E order \in Orders(Written) : OneAtATime(order, StartLimiter)

\* The calls on a key that were made at the first instant, on the bucket
\* of `burst` tokens the first of them made.
AtStart(key) == {s \in Written : inflight[s].key = key /\ inflight[s].at = 0}
PermittedAtStart(key) == {s \in AtStart(key) : inflight[s].result.ok}

\* While no time has passed: of n calls on a key min(n, burst) are
\* permitted, each permitted call has taken one token of the bucket and
\* one call has made the bucket.
TokensOnce ==
    ticks = 0 =>
        \A key \in LimiterKeys :
            LET l == limiters["unit"]
                n == Cardinality(AtStart(key))
                k == l.burst \div OneToken
            IN  /\ Cardinality(PermittedAtStart(key)) = IF n < k THEN n ELSE k
                /\ n > 0 =>
                    /\ key \in DOMAIN l.buckets
                    /\ l.buckets[key].tokens
                            = l.burst - Cardinality(PermittedAtStart(key)) * OneToken
                    /\ Cardinality({s \in AtStart(key) : inflight[s].result.created}) = 1

C34_AllowSerialized == AllowsSerializable /\ TokensOnce

\* Three calls on one key were in flight together on a bucket of one token:
\* one has returned permitted, one has been denied and still holds the
\* lock, one waits for the lock.
C34_Witness ==
    /\ ticks = 0
    /\ \E a, b, c \in DOMAIN inflight :
        /\ inflight[a].key = inflight[b].key /\ inflight[b].key = inflight[c].key
        /\ inflight[a].pc = "done" /\ inflight[a].result.ok
        /\ inflight[b].pc = "unlock" /\ ~inflight[b].result.ok
        /\ inflight[c].pc = "lock"

\* ---------------------------------------------------------------------------
\* C35: for every interleaving of n >= 5 concurrent failed admin requests
\* of one origin in one window, from no tracked state and with no success
\* among them, exactly one of them logs the alert and the count ends at n;
\* a concurrent success of that origin comes before or after each failure
\* as a whole, and leaves the entry absent or counting the failures after
\* it.
\*
\* The requests answered, those of them that failed, and the turn of the
\* success among them (0 when there is none).
Answered == {s \in DOMAIN inflight : inflight[s].pc = "done"}
FailedOnes == {s \in Answered : AdminGuardRejects(cfg, inflight[s].ah)}
TheSuccess == CHOOSE s \in Answered : s \notin FailedOnes
ResetTurn == IF Answered = FailedOnes THEN 0 ELSE inflight[TheSuccess].turn

\* The failures counted since the reset, or since the start.
SinceReset == {s \in FailedOnes : inflight[s].turn > ResetTurn}

\* Each failure was counted as a whole, before the success or after it: it
\* returned the number of failures up to it since the start or since the
\* reset, and the alert exactly at the threshold.
CountedInTurn ==
    \A s \in FailedOnes :
        /\ inflight[s].count = IF inflight[s].turn > ResetTurn
                               THEN inflight[s].turn - ResetTurn
                               ELSE inflight[s].turn
        /\ inflight[s].alert <=> inflight[s].count = adminFailureThreshold

\* The entry is absent or counts the failures since the reset.
EntryAfterReset ==
    IF SinceReset = {} THEN KnockKey \notin DOMAIN adminFailures
    ELSE /\ KnockKey \in DOMAIN adminFailures
         /\ adminFailures[KnockKey].count = Cardinality(SinceReset)

\* With no success among the requests, n answered failures have counted
\* to n, and one of them has alerted once n is at the threshold.
OneAlertOfAll ==
    (\A s \in DOMAIN inflight : AdminGuardRejects(cfg, inflight[s].ah)) =>
        /\ {inflight[s].count : s \in Answered} = 1..Cardinality(Answered)
        /\ Cardinality({s \in Answered : inflight[s].alert})
                = IF Cardinality(Answered) >= adminFailureThreshold THEN 1 ELSE 0

C35_TrackerSerialized == CountedInTurn /\ EntryAfterReset /\ OneAlertOfAll

\* MaxFailures failed requests were all in flight before the first of them
\* took the lock, the last to arrive being the first to write; all have
\* been answered and one of them logged the alert.
C35_Witness ==
    /\ Answered = Knockers
    /\ FailedOnes = Knockers
    /\ inflight[MaxFailures].turn = 1
    /\ adminFailures[KnockKey].count = MaxFailures
    /\ Cardinality({s \in Answered : inflight[s].alert}) = 1

\* ---------------------------------------------------------------------------
\* C36: for a presented token as long as the configured plaintext key the
\* comparison examines every byte position and accumulates the
\* differences, so that it takes the same number of steps for all tokens
\* of that length wherever the first byte that differs is; only a
\* difference in length returns early.
Compared == trial.kind = "compare" /\ trial.pc = "done"

\* The comparison has returned: after every position when the lengths are
\* equal, with the answer of ConstantTimeEq; after none when they differ.
EveryByteExamined ==
    Compared =>
        /\ trial.ok = ConstantTimeEq(trial.want, trial.got)
        /\ trial.examined = IF Len(trial.got) = Len(trial.want)
                            THEN DOMAIN trial.want ELSE {}

\* While it runs, the accumulator is 0 exactly when no byte examined so far
\* differed.
DifferencesAccumulated ==
    trial.kind = "compare" =>
        (trial.match = 0 <=> \A j \in trial.examined : trial.want[j] = trial.got[j])

C36_ComparisonConstantTime == EveryByteExamined /\ DifferencesAccumulated

\* A token of the key's length that differs from it in its first byte was
\* compared to the end and rejected.
C36_Witness ==
    /\ Compared
    /\ Len(trial.want) = MaxKeyLen
    /\ Len(trial.got) = MaxKeyLen
    /\ trial.want[1] # trial.got[1]
    /\ trial.want[MaxKeyLen] = trial.got[MaxKeyLen]
    /\ trial.examined = 1..MaxKeyLen
    /\ ~trial.ok

====
